---- MODULE Spec2Model ----
(***************************************************************************)
(* Ledger engine and trade state machine of the Second-Handed server.      *)
(*                                                                         *)
(* Every Python str is a TLA+ string, built by concatenation the way the   *)
(* code builds it.  SHA-256 and Ed25519 are modelled symbolically: the     *)
(* digest of s is the string "sha256(s)", the signature of key k over the  *)
(* hex string h is the string "sig(k,h)"; both constructors are injective, *)
(* so two digests (signatures) agree exactly when their inputs agree.      *)
(* A Python Optional is a sequence of length 0 (None) or 1.                *)
(***************************************************************************)
EXTENDS Integers, Sequences, FiniteSets, Bags, TLC

VARIABLES
    blocks,     \* table `blocks`: the rows in insertion order
    trades,     \* table `trades`: trade_id -> snapshot row
    now,        \* the server clock, int(time.time())
    req,        \* the request received and not yet handled, else NoRequest
    result,     \* outcome of the last handled request: "ok" or the exception text
    pc,         \* racing workers: position of each inside append_block
    wdata,      \* racing workers: the block_data being appended
    wlast,      \* racing workers: the last block read at line 109
    wres,       \* racing workers: outcome of the finished append_block
    rooms,      \* chat, per instance: _rooms, trade_id -> list of room entries
    alive,      \* chat: the connections whose send_json still succeeds
    participants, \* chat broker: the set of participant records of each trade
    inbox,      \* chat broker: per instance, the bus messages not yet handled
    tasks,      \* chat: the running service calls and the listener of each instance
    received,   \* chat: per connection, the bag of the messages sent to it
    chats,      \* table `chats`: the persisted messages
    calls,      \* chat: the number of service calls started
    joined,     \* chat: per connection, the arguments of its last join_room call
    broker,     \* chat: the broker the deployment has set, "redis" or "noop"
    info,       \* chat: the get_room_info call and what it returned
    handler,    \* chat: per connection, the state of its chat_websocket handler
    hist        \* chat, history: the events emitted and published, and per
                \* connection the messages sent to it in their order

ledgerVars == <<blocks, trades, now, req, result, pc, wdata, wlast, wres>>

\* the state of the callers of the chat service
frontVars == <<broker, info, handler>>

chatVars == <<rooms, alive, participants, inbox, tasks, received, chats, calls, joined,
              frontVars, hist>>

vars == <<ledgerVars, chatVars>>

-----------------------------------------------------------------------------
(* Bounds of the model *)

MaxTime == 1
MaxRaceBlocks == 3
MaxCalls == 2

(* Input universes *)

None == <<>>
Some(v) == <<v>>

TradeIds == {"a1", "b2"}
NonHexStrings == {"xyz"}
Keys == {"k1", "k2"}
MalformedKey == "k?"
ContentHash == "c0"
\* by the client convention trade_id is the digest of the creation body, so
\* a trade id comes with one body
CreateBody(trade_id) ==
    IF trade_id = "a1" THEN [description |-> Some("book"), price |-> Some(10)]
    ELSE [description |-> None, price |-> None]
Times == 0..MaxTime
Workers == {"w1", "w2"}

-----------------------------------------------------------------------------
(* Canonical hashing: server/domain/crypto/hash.py *)

SHA256(s) == "sha256(" \o s \o ")"

\* json.dumps of a str: the quote and the backslash of s[i..j] are escaped
RECURSIVE JsonEscape(_, _, _)
JsonEscape(s, i, j) ==
    IF i > j THEN ""
    ELSE IF i = j
    THEN LET c == SubSeq(s, i, i)
         IN IF c = "\"" \/ c = "\\" THEN "\\" \o c ELSE c
    ELSE JsonEscape(s, i, (i + j) \div 2) \o JsonEscape(s, (i + j) \div 2 + 1, j)

JsonStr(s) == "\"" \o JsonEscape(s, 1, Len(s)) \o "\""

JsonOptStr(o) == IF o = None THEN "null" ELSE JsonStr(o[1])

JsonOptInt(o) == IF o = None THEN "null" ELSE ToString(o[1])

\* canonical_json of the cancel body: keys sorted, separators (",", ":")
canonical_json(body) ==
    "{\"result\":" \o JsonStr(body.result)
        \o ",\"timestamp\":" \o ToString(body.timestamp)
        \o ",\"trade_id\":" \o JsonStr(body.trade_id) \o "}"

hash_object(body) == SHA256(canonical_json(body))

-----------------------------------------------------------------------------
(* Signature verifier: server/domain/crypto/verify.py *)

Sign(key, h) == "sig(" \o key \o "," \o h \o ")"

\* bytes.fromhex raises ValueError on a string that is not hex
IsHex(h) == h \notin NonHexStrings

\* Ed25519PublicKey.from_public_bytes raises ValueError on a malformed key
WellFormedKey(k) == k \in Keys

verify_signature(pubkey, hash, signature) ==
    /\ WellFormedKey(pubkey)
    /\ IsHex(hash)
    /\ signature = Sign(pubkey, hash)

-----------------------------------------------------------------------------
(* Ledger engine: server/application/blockchain/service.py and            *)
(* server/infrastructure/db/blocks.py                                      *)

GenesisHash == "0000000000000000000000000000000000000000000000000000000000000000"

\* json.dumps(inner payload) in the insertion order of the dict literals of
\* verify_create (70-75), verify_complete (142) and verify_cancel (196-200)
JsonDumpsInner(type, p) ==
    CASE type = "CREATE" ->
            "{\"content_hash\": " \o JsonStr(p.content_hash)
                \o ", \"seller_pubkey\": " \o JsonStr(p.seller_pubkey)
                \o ", \"description\": " \o JsonOptStr(p.description)
                \o ", \"price\": " \o JsonOptInt(p.price) \o "}"
      [] type = "COMPLETE" ->
            "{\"trade_id\": " \o JsonStr(p.trade_id)
                \o ", \"result\": " \o JsonStr(p.result) \o "}"
      [] OTHER ->
            "{\"trade_id\": " \o JsonStr(p.trade_id)
                \o ", \"result\": " \o JsonStr(p.result)
                \o ", \"timestamp\": " \o ToString(p.timestamp) \o "}"

JsonDumpsSignatures(type, s) ==
    IF type = "COMPLETE"
    THEN "{\"seller\": " \o JsonStr(s.seller) \o ", \"buyer\": " \o JsonStr(s.buyer) \o "}"
    ELSE "{\"seller\": " \o JsonStr(s.seller) \o "}"

\* json.dumps(full_payload, ensure_ascii=False): the text of the column
\* payload_json, keys in insertion order, separators ", " and ": "
json_dumps(full_payload) ==
    "{\"type\": " \o JsonStr(full_payload.type)
        \o ", \"trade_id\": " \o JsonStr(full_payload.trade_id)
        \o ", \"payload\": " \o JsonDumpsInner(full_payload.type, full_payload.payload)
        \o ", \"signatures\": "
        \o JsonDumpsSignatures(full_payload.type, full_payload.signatures) \o "}"

\* json.loads: a scanner over the text. A parsed value is <<"str", s>>,
\* <<"num", n>>, <<"null">> or <<"obj", members>>, members being the
\* <<key, value>> pairs in the order of the text.
Char(s, i) == IF i <= Len(s) THEN SubSeq(s, i, i) ELSE ""

\* the number of backslashes that end at s[i]
RECURSIVE BackslashRun(_, _)
BackslashRun(s, i) ==
    IF i < 1 \/ Char(s, i) # "\\" THEN 0 ELSE 1 + BackslashRun(s, i - 1)

\* s[i] is the backslash of an escape, not a character of the string
StartsEscape(s, i) == Char(s, i) = "\\" /\ BackslashRun(s, i - 1) % 2 = 0

\* the position of the quote that closes the string whose characters start
\* at s[i]: the first quote that no backslash escapes
RECURSIVE FirstQuote(_, _, _)
FirstQuote(s, i, j) ==
    IF i > j THEN Len(s) + 1
    ELSE IF i = j
    THEN (IF Char(s, i) = "\"" /\ BackslashRun(s, i - 1) % 2 = 0 THEN i ELSE Len(s) + 1)
    ELSE LET left == FirstQuote(s, i, (i + j) \div 2)
         IN IF left <= Len(s) THEN left ELSE FirstQuote(s, (i + j) \div 2 + 1, j)

StringEnd(s, i) == FirstQuote(s, i, Len(s))

\* the characters s[i..j] with the escapes undone
RECURSIVE JsonUnescape(_, _, _)
JsonUnescape(s, i, j) ==
    IF i > j THEN ""
    ELSE IF i = j THEN (IF StartsEscape(s, i) THEN "" ELSE Char(s, i))
    ELSE JsonUnescape(s, i, (i + j) \div 2) \o JsonUnescape(s, (i + j) \div 2 + 1, j)

ScanString(s, i) ==
    LET j == StringEnd(s, i)
    IN [raw |-> <<"str", JsonUnescape(s, i, j - 1)>>, next |-> j + 1]

DigitValue(c) ==
    CASE c = "0" -> 0 [] c = "1" -> 1 [] c = "2" -> 2 [] c = "3" -> 3 [] c = "4" -> 4
      [] c = "5" -> 5 [] c = "6" -> 6 [] c = "7" -> 7 [] c = "8" -> 8 [] c = "9" -> 9
      [] OTHER -> -1

\* the number whose digits start at s[i], read after the value n
RECURSIVE ScanNumber(_, _, _)
ScanNumber(s, i, n) ==
    IF DigitValue(Char(s, i)) < 0 THEN [raw |-> <<"num", n>>, next |-> i]
    ELSE ScanNumber(s, i + 1, 10 * n + DigitValue(Char(s, i)))

RECURSIVE ParseValue(_, _)
RECURSIVE ParseMembers(_, _)
ParseValue(s, i) ==
    CASE Char(s, i) = "\"" -> ScanString(s, i + 1)
      [] Char(s, i) = "{" ->
            LET m == ParseMembers(s, i + 1)
            IN [raw |-> <<"obj", m.raw>>, next |-> m.next]
      [] Char(s, i) = "n" -> [raw |-> <<"null">>, next |-> i + 4]
      [] OTHER -> ScanNumber(s, i, 0)

\* the members of an object from s[i], the position of a key or of "}"
ParseMembers(s, i) ==
    IF Char(s, i) = "}" \/ i > Len(s) THEN [raw |-> <<>>, next |-> i + 1]
    ELSE LET k == ParseValue(s, i)
             v == ParseValue(s, k.next + 2)
             rest == ParseMembers(s, IF Char(s, v.next) = "," THEN v.next + 2 ELSE v.next)
         IN [raw |-> <<<<k.raw[2], v.raw>>>> \o rest.raw, next |-> rest.next]

\* the keys whose Python value is Optional
OptionalKeys == {"description", "price"}

\* the Python object of a parsed value: a dict keeps the last member of a key
RECURSIVE PyValue(_, _)
PyValue(key, raw) ==
    LET v == CASE raw[1] = "obj" ->
                    [k \in {raw[2][n][1] : n \in DOMAIN raw[2]} |->
                        LET last == CHOOSE n \in DOMAIN raw[2] :
                                        /\ raw[2][n][1] = k
                                        /\ \A m \in DOMAIN raw[2] : raw[2][m][1] = k => m <= n
                        IN PyValue(k, raw[2][last][2])]
               [] raw[1] = "null" -> None
               [] OTHER -> raw[2]
    IN IF key \in OptionalKeys /\ raw[1] # "null" THEN Some(v) ELSE v

json_loads(text) == PyValue("", ParseValue(text, 1).raw)

\* json.dumps(inner payload, sort_keys=True) for the three block types
JsonInner(type, p) ==
    CASE type = "CREATE" ->
            "{\"content_hash\": " \o JsonStr(p.content_hash)
                \o ", \"description\": " \o JsonOptStr(p.description)
                \o ", \"price\": " \o JsonOptInt(p.price)
                \o ", \"seller_pubkey\": " \o JsonStr(p.seller_pubkey) \o "}"
      [] type = "COMPLETE" ->
            "{\"result\": " \o JsonStr(p.result)
                \o ", \"trade_id\": " \o JsonStr(p.trade_id) \o "}"
      [] OTHER ->
            "{\"result\": " \o JsonStr(p.result)
                \o ", \"timestamp\": " \o ToString(p.timestamp)
                \o ", \"trade_id\": " \o JsonStr(p.trade_id) \o "}"

JsonSignatures(type, s) ==
    IF type = "COMPLETE"
    THEN "{\"buyer\": " \o JsonStr(s.buyer) \o ", \"seller\": " \o JsonStr(s.seller) \o "}"
    ELSE "{\"seller\": " \o JsonStr(s.seller) \o "}"

\* json.dumps(full_payload, sort_keys=True)
JsonSorted(full_payload) ==
    "{\"payload\": " \o JsonInner(full_payload.type, full_payload.payload)
        \o ", \"signatures\": " \o JsonSignatures(full_payload.type, full_payload.signatures)
        \o ", \"trade_id\": " \o JsonStr(full_payload.trade_id)
        \o ", \"type\": " \o JsonStr(full_payload.type) \o "}"

compute_block_hash(block) ==
    SHA256(ToString(block.index) \o block.prev_hash
            \o JsonSorted(block.payload) \o ToString(block.timestamp))

\* SELECT * FROM blocks ORDER BY block_index DESC LIMIT 1: a row of the
\* greatest block_index (any of them when several rows share it)
get_last_block ==
    IF blocks = <<>> THEN {None}
    ELSE {Some(blocks[i]) : i \in {j \in DOMAIN blocks :
                \A k \in DOMAIN blocks : blocks[k].block_index <= blocks[j].block_index}}

\* the rows get_latest_block can return, in the service's internal format
get_latest_block ==
    {IF r = None THEN None
     ELSE Some([index |-> r[1].block_index,
                prev_hash |-> r[1].prev_hash,
                hash |-> r[1].block_hash,
                timestamp |-> r[1].timestamp,
                type |-> r[1].type,
                payload |-> json_loads(r[1].payload_json)]) : r \in get_last_block}

\* insert_block as REPLACE INTO a table keyed by type: the row takes the
\* place of the stored row of its type
insert_block_replacing(table, block) ==
    LET row == [block_index |-> block.index,
                prev_hash |-> block.prev_hash,
                block_hash |-> block.hash,
                timestamp |-> block.timestamp,
                type |-> block.type,
                payload_json |-> block.payload_json]
    IN Append(SelectSeq(table, LAMBDA r : r.type # block.type), row)

\* INSERT INTO blocks: the stored row of a db_block
insert_block(table, block) ==
    Append(table, [block_index |-> block.index,
                   prev_hash |-> block.prev_hash,
                   block_hash |-> block.hash,
                   timestamp |-> block.timestamp,
                   type |-> block.type,
                   payload_json |-> block.payload_json])

Raise(e) == [err |-> e, block |-> None]
Return(b) == [err |-> "", block |-> Some(b)]

ChainBroken == "Blockchain broken: prev_hash mismatch"

\* append_block writing the genesis prev_hash into every block
append_block_unlinked(block_data, last_block, t1, t2) ==
    LET full_payload == [type |-> block_data.type,
                         trade_id |-> block_data.trade_id,
                         payload |-> block_data.payload,
                         signatures |-> block_data.signatures]
        index == IF last_block = None THEN 0 ELSE last_block[1].index + 1
        block_for_hash == [index |-> index, prev_hash |-> GenesisHash,
                           payload |-> full_payload, timestamp |-> t1]
    IN Return([index |-> index, prev_hash |-> GenesisHash,
               hash |-> compute_block_hash(block_for_hash), timestamp |-> t2,
               type |-> block_data.type, payload_json |-> json_dumps(full_payload)])

\* append_block storing the hash its caller put into block_data
append_block_trusting(block_data, last_block, t1, t2) ==
    LET index == IF last_block = None THEN 0 ELSE last_block[1].index + 1
        prev_hash == IF last_block = None THEN GenesisHash ELSE last_block[1].hash
        full_payload == [type |-> block_data.type,
                         trade_id |-> block_data.trade_id,
                         payload |-> block_data.payload,
                         signatures |-> block_data.signatures]
        block_for_hash == [index |-> index, prev_hash |-> prev_hash,
                           payload |-> full_payload, timestamp |-> t1]
        block_hash == IF "hash" \in DOMAIN block_data THEN block_data.hash
                      ELSE compute_block_hash(block_for_hash)
    IN Return([index |-> index, prev_hash |-> prev_hash,
               hash |-> block_hash, timestamp |-> t2,
               type |-> block_data.type,
               payload_json |-> json_dumps(full_payload)])

\* append_block lines 111-148, from the last block read at line 109 and the
\* two clock readings of lines 132 and 141; Return(db_block) reaches line 150
append_block(block_data, last_block, t1, t2) ==
    LET index == IF last_block = None THEN 0 ELSE last_block[1].index + 1
        prev_hash == IF last_block = None THEN GenesisHash ELSE last_block[1].hash
        full_payload == [type |-> block_data.type,
                         trade_id |-> block_data.trade_id,
                         payload |-> block_data.payload,
                         signatures |-> block_data.signatures]
        block_for_hash == [index |-> index, prev_hash |-> prev_hash,
                           payload |-> full_payload, timestamp |-> t1]
        block_hash == compute_block_hash(block_for_hash)
        db_block == [index |-> index, prev_hash |-> prev_hash,
                     hash |-> block_hash, timestamp |-> t2,
                     type |-> block_data.type,
                     payload_json |-> json_dumps(full_payload)]
    IN IF last_block # None /\ db_block.prev_hash # last_block[1].hash
       THEN Raise(ChainBroken)
       ELSE Return(db_block)

-----------------------------------------------------------------------------
(* Trade snapshot store: server/infrastructure/db/trades.py               *)

get_trade(trade_id) ==
    IF trade_id \in DOMAIN trades THEN Some(trades[trade_id]) ELSE None

insert_trade(table, t) ==
    IF t.trade_id \in DOMAIN table THEN table
    ELSE table @@ (t.trade_id :>
            [trade_id |-> t.trade_id,
             seller_pubkey |-> t.seller_pubkey,
             buyer_pubkey |-> None,
             content_hash |-> t.content_hash,
             description |-> t.description,
             price |-> t.price,
             status |-> t.status,
             seller_chat_pubkey |-> None,
             buyer_chat_pubkey |-> None])

update_trade_status(table, trade_id, status) ==
    IF trade_id \in DOMAIN table
    THEN [table EXCEPT ![trade_id].status = status]
    ELSE table

update_trade_join(table, trade_id, buyer_pubkey, buyer_chat_pubkey) ==
    IF trade_id \in DOMAIN table
    THEN [table EXCEPT ![trade_id].buyer_pubkey = Some(buyer_pubkey),
                       ![trade_id].buyer_chat_pubkey = Some(buyer_chat_pubkey)]
    ELSE table

-----------------------------------------------------------------------------
(* Trade state machine: server/application/trade/service.py               *)

CreateBlock(trade_id, content_hash, seller_pubkey, signature, description, price) ==
    [type |-> "CREATE",
     trade_id |-> trade_id,
     payload |-> [content_hash |-> content_hash,
                  seller_pubkey |-> seller_pubkey,
                  description |-> description,
                  price |-> price],
     signatures |-> [seller |-> signature]]

\* verify_create without the uniqueness check of lines 54-56
verify_create_no_unique(trade_id, content_hash, seller_pubkey, signature, description, price) ==
    IF ~verify_signature(seller_pubkey, trade_id, signature)
    THEN Raise("Invalid seller signature")
    ELSE Return(CreateBlock(trade_id, content_hash, seller_pubkey, signature,
                            description, price))

\* verify_create without the signature check of lines 58-64
verify_create_no_signature(trade_id, content_hash, seller_pubkey, signature, description, price) ==
    IF get_trade(trade_id) # None
    THEN Raise("Trade already exists")
    ELSE Return(CreateBlock(trade_id, content_hash, seller_pubkey, signature,
                            description, price))

verify_create(trade_id, content_hash, seller_pubkey, signature, description, price) ==
    IF get_trade(trade_id) # None
    THEN Raise("Trade already exists")
    ELSE IF ~verify_signature(seller_pubkey, trade_id, signature)
    THEN Raise("Invalid seller signature")
    ELSE Return(CreateBlock(trade_id, content_hash, seller_pubkey, signature,
                            description, price))

CompleteBlock(trade_id, complete_hash, seller_sig, buyer_sig) ==
    [type |-> "COMPLETE",
     trade_id |-> trade_id,
     payload |-> [trade_id |-> trade_id, result |-> "COMPLETED"],
     hash |-> complete_hash,
     signatures |-> [seller |-> seller_sig, buyer |-> buyer_sig]]

\* verify_complete without the state check of lines 112-114
verify_complete_any_state(trade_id, complete_hash, seller_sig, buyer_sig) ==
    LET trade == get_trade(trade_id) IN
    IF trade = None
    THEN Raise("Trade not found")
    ELSE IF trade[1].buyer_pubkey = None
    THEN Raise("Buyer pubkey not set")
    ELSE IF ~verify_signature(trade[1].seller_pubkey, complete_hash, seller_sig)
    THEN Raise("Invalid seller signature")
    ELSE IF ~verify_signature(trade[1].buyer_pubkey[1], complete_hash, buyer_sig)
    THEN Raise("Invalid buyer signature")
    ELSE Return(CompleteBlock(trade_id, complete_hash, seller_sig, buyer_sig))

\* verify_complete without the buyer's signature check of lines 130-136
verify_complete_seller_only(trade_id, complete_hash, seller_sig, buyer_sig) ==
    LET trade == get_trade(trade_id) IN
    IF trade = None
    THEN Raise("Trade not found")
    ELSE IF trade[1].status # "OPEN"
    THEN Raise("Trade is not open")
    ELSE IF trade[1].buyer_pubkey = None
    THEN Raise("Buyer pubkey not set")
    ELSE IF ~verify_signature(trade[1].seller_pubkey, complete_hash, seller_sig)
    THEN Raise("Invalid seller signature")
    ELSE Return(CompleteBlock(trade_id, complete_hash, seller_sig, buyer_sig))

\* verify_complete with the seller's signature checked before the buyer is looked up
verify_complete_signature_first(trade_id, complete_hash, seller_sig, buyer_sig) ==
    LET trade == get_trade(trade_id) IN
    IF trade = None
    THEN Raise("Trade not found")
    ELSE IF trade[1].status # "OPEN"
    THEN Raise("Trade is not open")
    ELSE IF ~verify_signature(trade[1].seller_pubkey, complete_hash, seller_sig)
    THEN Raise("Invalid seller signature")
    ELSE IF trade[1].buyer_pubkey = None
    THEN Raise("Buyer pubkey not set")
    ELSE IF ~verify_signature(trade[1].buyer_pubkey[1], complete_hash, buyer_sig)
    THEN Raise("Invalid buyer signature")
    ELSE Return(CompleteBlock(trade_id, complete_hash, seller_sig, buyer_sig))

verify_complete(trade_id, complete_hash, seller_sig, buyer_sig) ==
    LET trade == get_trade(trade_id) IN
    IF trade = None
    THEN Raise("Trade not found")
    ELSE IF trade[1].status # "OPEN"
    THEN Raise("Trade is not open")
    ELSE IF trade[1].buyer_pubkey = None
    THEN Raise("Buyer pubkey not set")
    ELSE IF ~verify_signature(trade[1].seller_pubkey, complete_hash, seller_sig)
    THEN Raise("Invalid seller signature")
    ELSE IF ~verify_signature(trade[1].buyer_pubkey[1], complete_hash, buyer_sig)
    THEN Raise("Invalid buyer signature")
    ELSE Return(CompleteBlock(trade_id, complete_hash, seller_sig, buyer_sig))

CancelBlock(trade_id, body, cancel_hash, seller_sig) ==
    [type |-> "CANCEL",
     trade_id |-> trade_id,
     payload |-> body,
     hash |-> cancel_hash,
     signatures |-> [seller |-> seller_sig]]

\* verify_cancel accepting the signature of any well-formed key
verify_cancel_any_key(trade_id, cancel_hash, seller_sig, t) ==
    LET trade == get_trade(trade_id)
        body == [trade_id |-> trade_id, result |-> "CANCELLED", timestamp |-> t]
    IN
    IF trade = None
    THEN Raise("Trade not found")
    ELSE IF trade[1].status # "OPEN"
    THEN Raise("Trade is not open")
    ELSE IF ~(\E k \in Keys : verify_signature(k, cancel_hash, seller_sig))
    THEN Raise("Invalid seller signature")
    ELSE IF hash_object(body) # cancel_hash
    THEN Raise("Hash mismatch")
    ELSE Return(CancelBlock(trade_id, body, cancel_hash, seller_sig))

\* verify_cancel accepting the digest of the body of any second of the clock
verify_cancel_any_second(trade_id, cancel_hash, seller_sig, t) ==
    LET trade == get_trade(trade_id)
        body == [trade_id |-> trade_id, result |-> "CANCELLED", timestamp |-> t]
        bodies == {[trade_id |-> trade_id, result |-> "CANCELLED", timestamp |-> u] : u \in Times}
    IN
    IF trade = None
    THEN Raise("Trade not found")
    ELSE IF trade[1].status # "OPEN"
    THEN Raise("Trade is not open")
    ELSE IF ~verify_signature(trade[1].seller_pubkey, cancel_hash, seller_sig)
    THEN Raise("Invalid seller signature")
    ELSE IF \A b \in bodies : hash_object(b) # cancel_hash
    THEN Raise("Hash mismatch")
    ELSE Return(CancelBlock(trade_id, body, cancel_hash, seller_sig))

\* verify_cancel without the digest comparison of lines 202-205
verify_cancel_no_digest(trade_id, cancel_hash, seller_sig, t) ==
    LET trade == get_trade(trade_id)
        body == [trade_id |-> trade_id, result |-> "CANCELLED", timestamp |-> t]
    IN
    IF trade = None
    THEN Raise("Trade not found")
    ELSE IF trade[1].status # "OPEN"
    THEN Raise("Trade is not open")
    ELSE IF ~verify_signature(trade[1].seller_pubkey, cancel_hash, seller_sig)
    THEN Raise("Invalid seller signature")
    ELSE Return(CancelBlock(trade_id, body, cancel_hash, seller_sig))

\* t is the clock reading of line 199
verify_cancel(trade_id, cancel_hash, seller_sig, t) ==
    LET trade == get_trade(trade_id)
        body == [trade_id |-> trade_id, result |-> "CANCELLED", timestamp |-> t]
    IN
    IF trade = None
    THEN Raise("Trade not found")
    ELSE IF trade[1].status # "OPEN"
    THEN Raise("Trade is not open")
    ELSE IF ~verify_signature(trade[1].seller_pubkey, cancel_hash, seller_sig)
    THEN Raise("Invalid seller signature")
    ELSE IF hash_object(body) # cancel_hash
    THEN Raise("Hash mismatch")
    ELSE Return(CancelBlock(trade_id, body, cancel_hash, seller_sig))

\* lines 234-254: the projection of an appended block into the snapshot table
project_block(table, block) ==
    CASE block.type = "CREATE" ->
            insert_trade(table, [trade_id |-> block.trade_id,
                                 seller_pubkey |-> block.payload.seller_pubkey,
                                 content_hash |-> block.payload.content_hash,
                                 description |-> block.payload.description,
                                 price |-> block.payload.price,
                                 status |-> "OPEN"])
      [] block.type = "COMPLETE" -> update_trade_status(table, block.trade_id, "COMPLETED")
      [] block.type = "CANCEL" -> update_trade_status(table, block.trade_id, "CANCELLED")
      [] OTHER -> table

\* the clock readings a handler can make after reading t
ClockAfter(t) == {u \in Times : t <= u /\ u <= t + 1}

\* apply_block: append_block (its latest-block read, its two clock readings,
\* its insert), then the projection; an exception of append_block propagates
apply_block(block, t) ==
    \E last_block \in get_latest_block : \E t1 \in ClockAfter(t) : \E t2 \in ClockAfter(t1) :
        LET a == append_block(block, last_block, t1, t2) IN
        /\ now' = t2
        /\ IF a.err # ""
           THEN /\ result' = a.err
                /\ UNCHANGED <<blocks, trades>>
           ELSE /\ blocks' = insert_block(blocks, a.block[1])
                /\ trades' = project_block(trades, block)
                /\ result' = "ok"

-----------------------------------------------------------------------------
(* Route handlers: server/interfaces/http/routers/trade.py                *)

\* the signatures a client can send with a request whose signed string is h
SignatureInputs(h) == {Sign(k, h) : k \in Keys} \cup {"bad"}

\* the other trade id, for a signature made over the wrong string
OtherId(trade_id) == CHOOSE j \in TradeIds : j # trade_id

SellerInputs == {"k1", MalformedKey}

CreateRequests ==
    UNION {{[op |-> "create", trade_id |-> i, content_hash |-> ContentHash,
             seller_pubkey |-> k, signature |-> s,
             description |-> CreateBody(i).description, price |-> CreateBody(i).price] :
                k \in SellerInputs, s \in SignatureInputs(i) \cup {Sign("k1", OtherId(i))}} :
           i \in TradeIds}

CompleteRequests ==
    {[op |-> "complete", trade_id |-> i, complete_hash |-> "c1",
      sig_seller |-> s, sig_buyer |-> b] :
        i \in TradeIds, s \in SignatureInputs("c1"), b \in SignatureInputs("c1")}
    \cup
    {[op |-> "complete", trade_id |-> i, complete_hash |-> "xyz",
      sig_seller |-> Sign("k1", "xyz"), sig_buyer |-> Sign(k, "xyz")] :
        i \in TradeIds, k \in Keys}

CancelBody(trade_id, t) == [trade_id |-> trade_id, result |-> "CANCELLED", timestamp |-> t]

CancelHashInputs(trade_id) == {hash_object(CancelBody(trade_id, t)) : t \in Times} \cup {"c1"}

CancelRequests ==
    UNION {UNION {{[op |-> "cancel", trade_id |-> i, cancel_hash |-> h, signature |-> s] :
                        s \in SignatureInputs(h)} : h \in CancelHashInputs(i)} :
           i \in TradeIds}

\* the buyer who joins a trade: another key for "a1", the seller's own for "b2"
BuyerInput(trade_id) == IF trade_id = "a1" THEN "k2" ELSE "k1"

JoinRequests ==
    {[op |-> "join", trade_id |-> i, buyer_pubkey |-> BuyerInput(i)] : i \in TradeIds}

Requests == CreateRequests \cup CompleteRequests \cup CancelRequests \cup JoinRequests

\* no request is waiting for its handler
NoRequest == [op |-> "none"]

Pending == req # NoRequest

\* a client's request arrives; the event loop runs one handler at a time
Receive ==
    /\ ~Pending
    /\ \E payload \in Requests : req' = payload
    /\ result' = ""
    /\ UNCHANGED <<blocks, trades, now, pc, wdata, wlast, wres>>
    /\ UNCHANGED chatVars

\* create_trade writing the snapshot row before it validates the request
create_trade_snapshot_first(payload) ==
    LET v == verify_create(payload.trade_id, payload.content_hash, payload.seller_pubkey,
                           payload.signature, payload.description, payload.price)
    IN IF v.err # ""
       THEN /\ result' = v.err
            /\ trades' = insert_trade(trades, [trade_id |-> payload.trade_id,
                                               seller_pubkey |-> payload.seller_pubkey,
                                               content_hash |-> payload.content_hash,
                                               description |-> payload.description,
                                               price |-> payload.price,
                                               status |-> "OPEN"])
            /\ UNCHANGED <<blocks, now>>
       ELSE apply_block(v.block[1], now)

create_trade(payload) ==
    LET v == verify_create(payload.trade_id, payload.content_hash, payload.seller_pubkey,
                           payload.signature, payload.description, payload.price)
    IN IF v.err # ""
       THEN /\ result' = v.err
            /\ UNCHANGED <<blocks, trades, now>>
       ELSE apply_block(v.block[1], now)

complete_trade(payload) ==
    LET v == verify_complete(payload.trade_id, payload.complete_hash,
                             payload.sig_seller, payload.sig_buyer)
    IN IF v.err # ""
       THEN /\ result' = v.err
            /\ UNCHANGED <<blocks, trades, now>>
       ELSE apply_block(v.block[1], now)

cancel_trade(payload) ==
    LET v == verify_cancel(payload.trade_id, payload.cancel_hash, payload.signature, now)
    IN IF v.err # ""
       THEN /\ result' = v.err
            /\ UNCHANGED <<blocks, trades, now>>
       ELSE apply_block(v.block[1], now)

\* join_trade_api -> join_trade -> update_trade_join, buyer_chat_pubkey = {}
join_trade_api(trade_id, payload) ==
    /\ trades' = update_trade_join(trades, trade_id, payload.buyer_pubkey, "{}")
    /\ result' = "ok"
    /\ UNCHANGED <<blocks, now>>

Create ==
    /\ Pending /\ req.op = "create"
    /\ create_trade(req)
    /\ req' = NoRequest
    /\ UNCHANGED <<pc, wdata, wlast, wres>>
    /\ UNCHANGED chatVars

Complete ==
    /\ Pending /\ req.op = "complete"
    /\ complete_trade(req)
    /\ req' = NoRequest
    /\ UNCHANGED <<pc, wdata, wlast, wres>>
    /\ UNCHANGED chatVars

Cancel ==
    /\ Pending /\ req.op = "cancel"
    /\ cancel_trade(req)
    /\ req' = NoRequest
    /\ UNCHANGED <<pc, wdata, wlast, wres>>
    /\ UNCHANGED chatVars

Join ==
    /\ Pending /\ req.op = "join"
    /\ join_trade_api(req.trade_id, req)
    /\ req' = NoRequest
    /\ UNCHANGED <<pc, wdata, wlast, wres>>
    /\ UNCHANGED chatVars

\* the server clock passes to the next second
Tick ==
    /\ now < MaxTime
    /\ now' = now + 1
    /\ UNCHANGED <<blocks, trades, req, result, pc, wdata, wlast, wres>>
    /\ UNCHANGED chatVars

-----------------------------------------------------------------------------
(* Requests handled one at a time *)

NoBlockData == [type |-> "", trade_id |-> ""]

NoResult == [err |-> "", stale |-> FALSE]

\* Chat: two server instances on one broker, the WebSocket connections each
\* of them holds, the room of one trade, and the coroutines that run
Instances == {"X", "Y"}

Conns == {"c1", "c2", "c3"}

InstanceOf(conn) == IF conn = "c3" THEN "Y" ELSE "X"

ChatTrade == "a1"

Callers == {"t1", "t2"}

\* the coroutines that call the chat service: those of Callers, and the
\* chat_websocket handler of each connection
Clients == Callers \cup Conns

NoMessage == [type |-> ""]

IdleTask ==
    [op |-> "", pc |-> "idle", inst |-> "", trade_id |-> "", conn |-> "",
     identity_pubkey |-> "", chat_pubkey |-> "", message |-> NoMessage,
     todo |-> <<>>, live |-> FALSE, dead |-> <<>>, removed |-> <<>>, exc |-> ""]

NoRooms == [trade_id \in {} |-> <<>>]

\* no get_room_info call has been made
NoInfo == [pc |-> "idle", inst |-> "", trade_id |-> "", participants |-> <<>>,
           result |-> <<>>]

\* chat_websocket has not been entered for the connection
NoHandler ==
    [pc |-> "none", found |-> FALSE, first |-> "", identity_pubkey |-> "",
     chat_pubkey |-> "", clause |-> "", cause |-> "", code |-> 0,
     reason |-> "", joins |-> 0, leaves |-> 0, sent |-> 0]

\* nothing is recorded; `on` tells whether the behaviour keeps the history
NoHistory(on) ==
    [on |-> on, emitted |-> EmptyBag, published |-> EmptyBag,
     order |-> [c \in Conns |-> <<>>]]

\* the event whose _emit (service.py:233-238) starts in this step: a service
\* call that held no message now holds one
Emission ==
    LET S == {t \in Clients : tasks[t].message = NoMessage /\ tasks'[t].message # NoMessage}
    IN IF S = {} THEN EmptyBag ELSE SetToBag({tasks'[CHOOSE t \in S : TRUE].message})

\* the event a service call gives to _broker.publish in this step (line 238)
Publication ==
    LET S == {t \in Clients : tasks[t].pc = "publish" /\ tasks'[t].pc = "idle"
                                /\ (broker = "redis" => inbox' # inbox)}
    IN IF S = {} THEN EmptyBag ELSE SetToBag({tasks[CHOOSE t \in S : TRUE].message})

\* the messages send_json hands to connection c in this step (line 258)
Delivery(c) ==
    LET S == {m \in BagToSet(received'[c]) :
                    CopiesIn(m, received'[c]) > CopiesIn(m, received[c])}
    IN IF S = {} THEN <<>> ELSE <<CHOOSE m \in S : TRUE>>

\* the history of the step, in a behaviour that keeps it
Records ==
    hist' = IF ~hist.on \/ (tasks' = tasks /\ received' = received) THEN hist
            ELSE [hist EXCEPT !.emitted = @ (+) Emission,
                              !.published = @ (+) Publication,
                              !.order = [c \in Conns |-> @[c] \o Delivery(c)]]

\* the state once lifespan has set the broker `kind` (app.py:37-50), before
\* any request; `on` tells whether the history is kept
InitOf(kind, on) ==
    /\ blocks = <<>>
    /\ trades = <<>>
    /\ now = 0
    /\ req = NoRequest
    /\ result = "ok"
    /\ pc = [w \in Workers |-> "idle"]
    /\ wdata = [w \in Workers |-> NoBlockData]
    /\ wlast = [w \in Workers |-> None]
    /\ wres = [w \in Workers |-> NoResult]
    /\ rooms = [i \in Instances |-> NoRooms]
    /\ alive = [c \in Conns |-> TRUE]
    /\ participants = {}
    /\ inbox = [i \in Instances |-> <<>>]
    /\ tasks = [t \in Clients \cup Instances |-> IdleTask]
    /\ received = [c \in Conns |-> EmptyBag]
    /\ chats = <<>>
    /\ calls = 0
    /\ joined = [c \in Conns |-> None]
    /\ broker = kind
    /\ info = NoInfo
    /\ handler = [c \in Conns |-> NoHandler]
    /\ hist = NoHistory(on)

InitWith(kind) == InitOf(kind, FALSE)

\* the deployment with the Redis broker enabled and connected
Init == InitWith("redis")

Next == Receive \/ Create \/ Complete \/ Cancel \/ Join \/ Tick

Spec == Init /\ [][Next]_vars

-----------------------------------------------------------------------------
(* Two append_block calls in overlapping requests (two server processes on *)
(* one database): each get_cursor block is a transaction of its own, so    *)
(* the read of line 109 and the insert of line 150 are separate steps.     *)

RaceBlockData ==
    {[type |-> "CREATE", trade_id |-> i,
      payload |-> [content_hash |-> ContentHash, seller_pubkey |-> "k1",
                   description |-> CreateBody(i).description,
                   price |-> CreateBody(i).price],
      signatures |-> [seller |-> Sign("k1", i)]] : i \in TradeIds}

\* line 109: the worker reads the latest block
RaceRead(w) ==
    /\ pc[w] = "idle"
    /\ Len(blocks) < MaxRaceBlocks
    /\ \E block_data \in RaceBlockData : \E last_block \in get_latest_block :
        /\ wdata' = [wdata EXCEPT ![w] = block_data]
        /\ wlast' = [wlast EXCEPT ![w] = last_block]
    /\ pc' = [pc EXCEPT ![w] = "read"]
    /\ UNCHANGED <<blocks, trades, now, req, result, wres>>
    /\ UNCHANGED chatVars

\* lines 111-148 raise, or line 150 stores the row; `stale` records whether
\* the block read at line 109 was still a latest block at that moment
RaceInsert(w) ==
    /\ pc[w] = "read"
    /\ \E t1 \in ClockAfter(now) : \E t2 \in ClockAfter(t1) :
        LET a == append_block(wdata[w], wlast[w], t1, t2) IN
        /\ now' = t2
        /\ wres' = [wres EXCEPT ![w] = [err |-> IF a.err # "" THEN a.err ELSE "ok",
                                        stale |-> wlast[w] \notin get_latest_block]]
        /\ blocks' = IF a.err # "" THEN blocks ELSE insert_block(blocks, a.block[1])
    /\ pc' = [pc EXCEPT ![w] = "done"]
    /\ UNCHANGED <<trades, req, result, wdata, wlast>>
    /\ UNCHANGED chatVars

\* line 150 on a table that already holds a row of that block_index: the
\* schema is not part of the code; under a unique key the INSERT raises
RaceInsertRefused(w) ==
    /\ pc[w] = "read"
    /\ append_block(wdata[w], wlast[w], now, now).err = ""
    /\ \E i \in DOMAIN blocks :
        blocks[i].block_index = append_block(wdata[w], wlast[w], now, now).block[1].index
    /\ wres' = [wres EXCEPT ![w] = [err |-> "IntegrityError", stale |-> TRUE]]
    /\ pc' = [pc EXCEPT ![w] = "done"]
    /\ UNCHANGED <<blocks, trades, now, req, result, wdata, wlast>>
    /\ UNCHANGED chatVars

RaceReturn(w) ==
    /\ pc[w] = "done"
    /\ pc' = [pc EXCEPT ![w] = "idle"]
    /\ wdata' = [wdata EXCEPT ![w] = NoBlockData]
    /\ wlast' = [wlast EXCEPT ![w] = None]
    /\ wres' = [wres EXCEPT ![w] = NoResult]
    /\ UNCHANGED <<blocks, trades, now, req, result>>
    /\ UNCHANGED chatVars

Read == \E w \in Workers : RaceRead(w)

Insert == \E w \in Workers : RaceInsert(w)

InsertRefused == \E w \in Workers : RaceInsertRefused(w)

ReturnFromAppend == \E w \in Workers : RaceReturn(w)

NextRace == Read \/ Insert \/ InsertRefused \/ ReturnFromAppend \/ Tick

SpecRace == Init /\ [][NextRace]_vars

-----------------------------------------------------------------------------
(* Replay of the ledger and out-of-band snapshot updates:                  *)
(* get_all_blocks, rebuild_state, update_chat_pubkey                       *)

\* db_get_all_blocks with ORDER BY block_index DESC
db_get_all_blocks_descending(table) ==
    {[n \in DOMAIN table |-> table[q[n]]] :
        q \in {p \in [DOMAIN table -> DOMAIN table] :
                /\ \A m, n \in DOMAIN table : m # n => p[m] # p[n]
                /\ \A m, n \in DOMAIN table :
                    m < n => table[p[m]].block_index >= table[p[n]].block_index}}

\* SELECT * FROM blocks ORDER BY block_index ASC: the rows of the table in an
\* order of ascending block_index (rows of one block_index in any order)
db_get_all_blocks(table) ==
    {[n \in DOMAIN table |-> table[q[n]]] :
        q \in {p \in [DOMAIN table -> DOMAIN table] :
                /\ \A m, n \in DOMAIN table : m # n => p[m] # p[n]
                /\ \A m, n \in DOMAIN table :
                    m < n => table[p[m]].block_index <= table[p[n]].block_index}}

\* lines 58-67: the event of each row
BlockEvents(rows) ==
    [n \in DOMAIN rows |->
        LET payload == json_loads(rows[n].payload_json)
        IN [type |-> rows[n].type,
            trade_id |-> payload.trade_id,
            payload |-> payload.payload,
            signatures |-> IF "signatures" \in DOMAIN payload
                           THEN payload.signatures ELSE <<>>]]

\* the lists get_all_blocks can return
get_all_blocks(table) == {BlockEvents(rows) : rows \in db_get_all_blocks(table)}

clear_trades == <<>>

update_trade_chat_pubkey(table, trade_id, identity_pubkey, chat_pubkey, is_seller) ==
    IF trade_id \notin DOMAIN table THEN table
    ELSE IF is_seller
    THEN [table EXCEPT ![trade_id].seller_chat_pubkey = Some(chat_pubkey)]
    ELSE [table EXCEPT ![trade_id].buyer_chat_pubkey = Some(chat_pubkey)]

\* lines 268-285: the projection rebuild_state makes of one block; the dict
\* it passes to insert_trade has no description and no price
rebuild_block(table, block) ==
    CASE block.type = "CREATE" ->
            insert_trade(table, [trade_id |-> block.trade_id,
                                 seller_pubkey |-> block.payload.seller_pubkey,
                                 content_hash |-> block.payload.content_hash,
                                 description |-> None,
                                 price |-> None,
                                 status |-> "OPEN"])
      [] block.type = "COMPLETE" -> update_trade_status(table, block.trade_id, "COMPLETED")
      [] block.type = "CANCEL" -> update_trade_status(table, block.trade_id, "CANCELLED")
      [] OTHER -> table

\* the loop of line 267 from the n-th block on
RECURSIVE RebuildFrom(_, _, _)
RebuildFrom(table, events, n) ==
    IF n > Len(events) THEN table
    ELSE RebuildFrom(rebuild_block(table, events[n]), events, n + 1)

\* the snapshot tables rebuild_state can leave
rebuild_state == {RebuildFrom(clear_trades, events, 1) : events \in get_all_blocks(blocks)}

\* update_chat_pubkey: the table it leaves and what it returns or raises
update_chat_pubkey(trade_id, identity_pubkey, chat_pubkey) ==
    LET trade == get_trade(trade_id) IN
    IF trade = None
    THEN [err |-> "Trade not found", table |-> trades]
    ELSE IF trade[1].seller_pubkey = identity_pubkey
    THEN [err |-> "", table |-> update_trade_chat_pubkey(trades, trade_id, identity_pubkey,
                                                          chat_pubkey, TRUE)]
    ELSE IF trade[1].buyer_pubkey = Some(identity_pubkey)
    THEN [err |-> "", table |-> update_trade_chat_pubkey(trades, trade_id, identity_pubkey,
                                                          chat_pubkey, FALSE)]
    ELSE [err |-> "User is not a participant in this trade", table |-> trades]

ChatKeys == {"ck1"}

\* update_chat_pubkey_api: a request of the route, handled in one step
UpdateChatPubkey ==
    /\ ~Pending
    /\ \E trade_id \in TradeIds : \E identity_pubkey \in Keys : \E chat_pubkey \in ChatKeys :
        LET u == update_chat_pubkey(trade_id, identity_pubkey, chat_pubkey) IN
        /\ trades' = u.table
        /\ result' = IF u.err = "" THEN "ok" ELSE u.err
    /\ UNCHANGED <<blocks, now, req, pc, wdata, wlast, wres>>
    /\ UNCHANGED chatVars

\* rebuild_state run by the operator between two requests
Rebuild ==
    /\ ~Pending
    /\ \E table \in rebuild_state : trades' = table
    /\ UNCHANGED <<blocks, now, req, result, pc, wdata, wlast, wres>>
    /\ UNCHANGED chatVars

\* the requests of the parties of trade "a1", who sign what they send, and
\* the creation of trade "b2"; a create request can carry a signature that
\* does not verify
PartyRequests ==
    {r \in Requests :
        CASE r.op = "create" ->
                /\ r.seller_pubkey = "k1"
                /\ r.signature \in {Sign("k1", r.trade_id), "bad"}
          [] r.op = "complete" ->
                /\ r.trade_id = "a1"
                /\ r.complete_hash = "c1"
                /\ r.sig_seller = Sign("k1", "c1")
                /\ r.sig_buyer = Sign(BuyerInput(r.trade_id), "c1")
          [] r.op = "cancel" ->
                /\ r.trade_id = "a1"
                /\ r.cancel_hash # "c1"
                /\ r.signature = Sign("k1", r.cancel_hash)
          [] OTHER -> r.trade_id = "a1"}

ReceiveFromParty ==
    /\ ~Pending
    /\ \E payload \in PartyRequests : req' = payload
    /\ result' = ""
    /\ UNCHANGED <<blocks, trades, now, pc, wdata, wlast, wres>>
    /\ UNCHANGED chatVars

NextSnapshot ==
    ReceiveFromParty \/ Create \/ Complete \/ Cancel \/ Join \/ Tick
        \/ UpdateChatPubkey \/ Rebuild

SpecSnapshot == Init /\ [][NextSnapshot]_vars

-----------------------------------------------------------------------------
(* Chat rooms: server/application/chat/service.py over the Redis broker of *)
(* server/infrastructure/messaging/redis_chat_broker.py.  The coroutines   *)
(* of one instance interleave only at an await, so every action runs one   *)
(* coroutine from one await to the next.                                   *)

Identities == {"k1", "k2", "k3"}

\* the identities a connection may authenticate as
IdentitiesOf(conn) ==
    CASE conn = "c1" -> {"k1", "k2"}
      [] conn = "c2" -> {"k2"}
      [] OTHER -> {"k3"}

\* the connections whose clients send chat messages
Senders == {"c1"}

\* the connections for which join_room is called more than once
Rejoining == {"c1"}

\* the chat key a client announces together with an identity
ChatKeyOf(identity_pubkey) == "ck-" \o identity_pubkey

Ciphertexts == {"m1"}

\* _broker_id = uuid4().hex, one value per instance
broker_id(i) == "id-" \o i

channel_prefix == "chat"

\* a room entry, the tuple (conn, identity_pubkey, chat_pubkey)
Entry(conn, identity_pubkey, chat_pubkey) ==
    [conn |-> conn, identity_pubkey |-> identity_pubkey, chat_pubkey |-> chat_pubkey]

RoomConns(room) == [n \in DOMAIN room |-> room[n].conn]

WithRoom(R, trade_id) ==
    [k \in DOMAIN R \cup {trade_id} |-> IF k \in DOMAIN R THEN R[k] ELSE <<>>]

WithoutRoom(R, trade_id) == [k \in DOMAIN R \ {trade_id} |-> R[k]]

\* broadcast_join, lines 128-134
join_message(trade_id, identity_pubkey, chat_pubkey, timestamp) ==
    [type |-> "JOIN", trade_id |-> trade_id, identity_pubkey |-> identity_pubkey,
     chat_pubkey |-> chat_pubkey, timestamp |-> timestamp]

\* relay, lines 163-169
chat_message(trade_id, sender_chat_pubkey, ciphertext, timestamp) ==
    [type |-> "CHAT", trade_id |-> trade_id, sender_chat_pubkey |-> sender_chat_pubkey,
     ciphertext |-> ciphertext, timestamp |-> timestamp]

\* _emit, lines 236-237
publish_message(message, origin_id) ==
    [k \in DOMAIN message \cup {"origin_id"} |->
        IF k = "origin_id" THEN origin_id ELSE message[k]]

\* the keys of a message in insertion order
MessageKeys(message) ==
    LET own == IF message.type = "JOIN"
               THEN <<"type", "trade_id", "identity_pubkey", "chat_pubkey", "timestamp">>
               ELSE <<"type", "trade_id", "sender_chat_pubkey", "ciphertext", "timestamp">>
    IN IF "origin_id" \in DOMAIN message THEN Append(own, "origin_id") ELSE own

RECURSIVE JsonDumpsMembers(_, _, _)
JsonDumpsMembers(message, keys, n) ==
    IF n > Len(keys) THEN ""
    ELSE (IF n > 1 THEN ", " ELSE "")
            \o JsonStr(keys[n]) \o ": "
            \o (IF keys[n] = "timestamp" THEN ToString(message[keys[n]])
                ELSE JsonStr(message[keys[n]]))
            \o JsonDumpsMembers(message, keys, n + 1)

\* RedisChatBroker.publish, line 56: json.dumps(message)
JsonDumpsMessage(message) ==
    "{" \o JsonDumpsMembers(message, MessageKeys(message), 1) \o "}"

\* RedisChatBroker.publish, line 55
Channel(trade_id) == channel_prefix \o ":" \o trade_id

\* RedisChatBroker.listen, line 116: channel_name.split(":", 1)[1]
TradeOfChannel(channel_name) ==
    SubSeq(channel_name, Len(channel_prefix) + 2, Len(channel_name))

\* the messages the service emits in this model, and the texts publish
\* writes for them
EmittedMessages ==
    {join_message(ChatTrade, k, ChatKeyOf(k), ts) : k \in Identities, ts \in 0..MaxTime}
        \cup {chat_message(ChatTrade, ChatKeyOf(k), c, ts) :
                    k \in Identities, c \in Ciphertexts, ts \in 0..MaxTime}

BusTexts ==
    {JsonDumpsMessage(publish_message(m, broker_id(i))) :
        m \in EmittedMessages, i \in Instances}

\* RedisChatBroker.listen, line 120: json.loads of the data of an item,
\* computed once for each text the bus can carry
LoadedTexts == {<<text, json_loads(text)>> : text \in BusTexts}

listen_loads(data) == (CHOOSE p \in LoadedTexts : p[1] = data)[2]

\* json.loads accepts the text: decided for the texts of this model, which
\* are a string, a number, null or an object of such members, or start with
\* a character that starts no JSON value
IsJson(text) ==
    /\ Char(text, 1) \in {"\"", "{", "n"} \/ DigitValue(Char(text, 1)) >= 0
    /\ ParseValue(text, 1).next = Len(text) + 1

\* the texts another publisher can put on a trade channel: an empty text,
\* a JSON number, a text that is no JSON
ForeignTexts == {"", "5", "oops"}

\* RedisChatBroker.listen, line 120: item.get("data") or "{}"
DataOrEmpty(data) == IF data = "" THEN "{}" ELSE data

\* RedisChatBroker.listen, lines 119-122, computed once for each text the
\* bus can carry: whether json.loads returns, whether the payload is a dict,
\* and the dict
LoadedItems ==
    {[data |-> p[1], valid |-> TRUE, dict |-> TRUE, value |-> p[2]] : p \in LoadedTexts}
        \cup {LET text == DataOrEmpty(data)
                  dict == IsJson(text) /\ ParseValue(text, 1).raw[1] = "obj"
              IN [data |-> data, valid |-> IsJson(text), dict |-> dict,
                  value |-> IF dict THEN json_loads(text) ELSE <<>>] :
              data \in ForeignTexts}

item_loads(data) == CHOOSE p \in LoadedItems : p.data = data

\* the coroutine has returned to its caller, which goes on
Returned(T) == IdleTask

\* the coroutine has raised into its caller
Raised(T, exc) ==
    [IdleTask EXCEPT !.op = T.op, !.pc = "raised", !.inst = T.inst,
                     !.trade_id = T.trade_id, !.conn = T.conn, !.exc = exc]

\* the end of _broadcast_local with a broker handler that publishes the
\* message it has delivered
AfterBroadcast_republishing(R, T, replaced) ==
    [rooms |-> R, replaced |-> replaced,
     task |-> [T EXCEPT !.pc = "publish", !.todo = <<>>, !.live = FALSE,
                        !.dead = <<>>, !.removed = <<>>]]

\* _emit after its _broadcast_local (lines 236-238), or the end of
\* _handle_broker_message, whose return lets the listener take the next item
AfterBroadcast(R, T, replaced) ==
    [rooms |-> R, replaced |-> replaced,
     task |-> IF T.op = "handle" THEN IdleTask
              ELSE [T EXCEPT !.pc = "publish", !.todo = <<>>, !.live = FALSE,
                             !.dead = <<>>, !.removed = <<>>]]

RECURSIVE leave_room(_, _, _)

\* leave_room returns to the coroutine that awaited it: the loop of line 262
\* goes to the next dead connection, or the call is over
LeaveReturn(R, T, replaced) ==
    IF Tail(T.dead) # <<>> THEN leave_room(R, [T EXCEPT !.dead = Tail(@)], replaced)
    ELSE IF T.op = "leave_room"
    THEN [rooms |-> R, replaced |-> replaced, task |-> Returned(T)]
    ELSE AfterBroadcast(R, T, replaced)

LeaveEnd_keeping(R, T, replaced) ==
    IF T.trade_id \notin DOMAIN R
    THEN [rooms |-> R, replaced |-> replaced, task |-> Raised(T, "KeyError")]
    ELSE LeaveReturn(R, T, replaced)

\* leave_room, lines 110-111
LeaveEnd(R, T, replaced) ==
    IF T.trade_id \notin DOMAIN R
    THEN [rooms |-> R, replaced |-> replaced, task |-> Raised(T, "KeyError")]
    ELSE LeaveReturn(IF R[T.trade_id] = <<>> THEN WithoutRoom(R, T.trade_id) ELSE R,
                     T, replaced)

\* leave_room(trade_id, Head(T.dead)), lines 89-103, up to its first await
leave_room(R, T, replaced) ==
    IF T.trade_id \notin DOMAIN R THEN LeaveReturn(R, T, replaced)
    ELSE LET conn == Head(T.dead)
             remaining == SelectSeq(R[T.trade_id], LAMBDA e : e.conn # conn)
             removed == SelectSeq(R[T.trade_id], LAMBDA e : e.conn = conn)
             R2 == [R EXCEPT ![T.trade_id] = remaining]
         IN IF removed = <<>> THEN LeaveEnd(R2, T, TRUE)
            ELSE [rooms |-> R2, replaced |-> TRUE,
                  task |-> [T EXCEPT !.pc = "remove_participant", !.removed = removed,
                                     !.todo = <<>>, !.live = FALSE]]

\* _broadcast_local, lines 252-258, up to its first await
broadcast_local(R, T, message) ==
    IF T.trade_id \notin DOMAIN R \/ R[T.trade_id] = <<>>
    THEN AfterBroadcast(R, [T EXCEPT !.message = message], FALSE)
    ELSE [rooms |-> R, replaced |-> FALSE,
          task |-> [T EXCEPT !.pc = "send", !.message = message,
                             !.todo = RoomConns(R[T.trade_id]), !.live = TRUE,
                             !.dead = <<>>]]

\* _broadcast_local, lines 262-263, once the loop of line 256 is exhausted
AfterLoop(R, T) ==
    IF T.dead = <<>> THEN AfterBroadcast(R, T, FALSE) ELSE leave_room(R, T, FALSE)

join_room_appending(R, T) ==
    LET R1 == IF T.trade_id \in DOMAIN R THEN R ELSE WithRoom(R, T.trade_id)
    IN [rooms |-> [R1 EXCEPT ![T.trade_id] =
                        Append(@, Entry(T.conn, T.identity_pubkey, T.chat_pubkey))],
        appended |-> <<T.conn>>, task |-> [T EXCEPT !.pc = "add_participant"]]

\* join_room, lines 59-71, up to its return or its first await
join_room(R, T) ==
    LET R1 == IF T.trade_id \in DOMAIN R THEN R ELSE WithRoom(R, T.trade_id)
        room == R1[T.trade_id]
        entry == Entry(T.conn, T.identity_pubkey, T.chat_pubkey)
        found == {n \in DOMAIN room : room[n].conn = T.conn}
    IN IF found # {}
       THEN LET i == CHOOSE n \in found : \A m \in found : n <= m
            IN [rooms |-> [R1 EXCEPT ![T.trade_id] = [room EXCEPT ![i] = entry]],
                appended |-> <<>>, task |-> Returned(T)]
       ELSE [rooms |-> [R1 EXCEPT ![T.trade_id] = Append(room, entry)],
             appended |-> <<T.conn>>, task |-> [T EXCEPT !.pc = "add_participant"]]

\* broadcast_join, lines 125-136
broadcast_join(R, T, timestamp) ==
    IF T.trade_id \notin DOMAIN R
    THEN [rooms |-> R, replaced |-> FALSE, task |-> Returned(T)]
    ELSE broadcast_local(R, T, join_message(T.trade_id, T.identity_pubkey,
                                            T.chat_pubkey, timestamp))

\* insert_message of server/infrastructure/db/chats.py: the row it stores
chat_row(trade_id, buyer_chat_pubkey, sender_pubkey, ciphertext, timestamp) ==
    [trade_id |-> trade_id, buyer_chat_pubkey |-> buyer_chat_pubkey,
     sender_pubkey |-> sender_pubkey, ciphertext |-> ciphertext,
     timestamp |-> timestamp]

relay_unguarded(R, T, ciphertext, sender_chat_pubkey, buyer_chat_pubkey, persisted, timestamp) ==
    IF T.trade_id \notin DOMAIN R
    THEN [rooms |-> R, replaced |-> FALSE, task |-> Returned(T), rows |-> <<>>]
    ELSE IF ~persisted
    THEN [rooms |-> R, replaced |-> FALSE, task |-> Raised(T, "DatabaseError"),
          rows |-> <<>>]
    ELSE LET b == broadcast_local(R, T, chat_message(T.trade_id, sender_chat_pubkey,
                                                     ciphertext, timestamp))
         IN [rooms |-> b.rooms, replaced |-> b.replaced, task |-> b.task,
             rows |-> <<chat_row(T.trade_id, buyer_chat_pubkey,
                                 sender_chat_pubkey, ciphertext, timestamp)>>]

\* relay, lines 153-171, up to its first await; `persisted` tells whether
\* insert_message returned or raised
relay(R, T, ciphertext, sender_chat_pubkey, buyer_chat_pubkey, persisted, timestamp) ==
    IF T.trade_id \notin DOMAIN R
    THEN [rooms |-> R, replaced |-> FALSE, task |-> Returned(T), rows |-> <<>>]
    ELSE LET b == broadcast_local(R, T, chat_message(T.trade_id, sender_chat_pubkey,
                                                     ciphertext, timestamp))
         IN [rooms |-> b.rooms, replaced |-> b.replaced, task |-> b.task,
             rows |-> IF persisted
                      THEN <<chat_row(T.trade_id, buyer_chat_pubkey,
                                      sender_chat_pubkey, ciphertext, timestamp)>>
                      ELSE <<>>]

\* _handle_broker_message broadcasting the payload as it came from the bus
handle_broker_message_forwarding(R, T, message) ==
    IF "origin_id" \in DOMAIN message /\ message.origin_id = broker_id(T.inst)
    THEN [rooms |-> R, replaced |-> FALSE, task |-> IdleTask]
    ELSE broadcast_local(R, T, message)

handle_broker_message_echoing(R, T, message) ==
    broadcast_local(R, T, [k \in DOMAIN message \ {"origin_id"} |-> message[k]])

\* _handle_broker_message, lines 243-247
handle_broker_message(R, T, message) ==
    IF "origin_id" \in DOMAIN message /\ message.origin_id = broker_id(T.inst)
    THEN [rooms |-> R, replaced |-> FALSE, task |-> IdleTask]
    ELSE broadcast_local(R, T, [k \in DOMAIN message \ {"origin_id"} |-> message[k]])

\* the state of the other coroutines of instance i after coroutine t ran:
\* a loop of line 256 over the list object of the room sees an entry
\* appended to it (line 71) and keeps the old object once line 101 has put
\* another list in its place
Coroutines(t, i, trade_id, T, appended, replaced) ==
    [u \in DOMAIN tasks |->
        IF u = t THEN T
        ELSE IF tasks[u].pc = "send" /\ tasks[u].inst = i /\ tasks[u].live
                /\ tasks[u].trade_id = trade_id
        THEN IF replaced THEN [tasks[u] EXCEPT !.live = FALSE]
             ELSE [tasks[u] EXCEPT !.todo = @ \o appended]
        ELSE tasks[u]]

\* coroutine t of instance i has run to `res`
Runs(t, i, trade_id, res) ==
    /\ rooms' = [rooms EXCEPT ![i] = res.rooms]
    /\ tasks' = Coroutines(t, i, trade_id, res.task, <<>>, res.replaced)

\* a service call starts in the first idle caller
Starts(t) ==
    /\ tasks[t].pc = "idle"
    /\ \A u \in Callers : tasks[u].pc = "idle" => u = t \/ u = "t2"
    /\ calls < MaxCalls
    /\ calls' = calls + 1

Call(op, i, trade_id) == [IdleTask EXCEPT !.op = op, !.inst = i, !.trade_id = trade_id]

\* chat_service.join_room(trade_id, conn, identity_pubkey, chat_pubkey),
\* called by chat_websocket once its connection has authenticated
CallJoin ==
    \E t \in Callers : \E conn \in Conns : \E identity_pubkey \in IdentitiesOf(conn) :
        LET i == InstanceOf(conn)
            T == [Call("join_room", i, ChatTrade) EXCEPT
                    !.conn = conn, !.identity_pubkey = identity_pubkey,
                    !.chat_pubkey = ChatKeyOf(identity_pubkey)]
            res == join_room(rooms[i], T)
        IN /\ Starts(t)
           /\ broker = "redis"
           /\ joined[conn] = None \/ conn \in Rejoining
           /\ rooms' = [rooms EXCEPT ![i] = res.rooms]
           /\ tasks' = Coroutines(t, i, ChatTrade, res.task, res.appended, FALSE)
           /\ joined' = [joined EXCEPT ![conn] = Some(Entry(conn, T.identity_pubkey, T.chat_pubkey))]
           /\ UNCHANGED <<alive, participants, inbox, received, chats>>
           /\ UNCHANGED ledgerVars
           /\ UNCHANGED frontVars
           /\ Records

\* chat_service.leave_room(trade_id, conn), called by chat_websocket when
\* its connection, joined before, disconnects
CallLeave ==
    \E t \in Callers : \E conn \in Conns :
        LET i == InstanceOf(conn)
            T == [Call("leave_room", i, ChatTrade) EXCEPT !.conn = conn, !.dead = <<conn>>]
        IN /\ Starts(t)
           /\ broker = "redis"
           /\ joined[conn] # None
           /\ Runs(t, i, ChatTrade, leave_room(rooms[i], T, FALSE))
           /\ UNCHANGED <<alive, participants, inbox, received, chats>>
           /\ UNCHANGED ledgerVars
           /\ UNCHANGED frontVars
           /\ Records
           /\ UNCHANGED joined

\* chat_service.relay(trade_id, ciphertext, sender_chat_pubkey,
\* buyer_chat_pubkey), called by the message loop of a joined connection
CallRelay ==
    \E t \in Callers : \E sender \in Senders :
    \E ciphertext \in Ciphertexts : \E persisted \in BOOLEAN :
        LET i == InstanceOf(sender)
            res == relay(rooms[i], Call("relay", i, ChatTrade), ciphertext,
                         ChatKeyOf("k1"), ChatKeyOf("k2"), persisted, now)
        IN /\ Starts(t)
           /\ broker = "redis"
           /\ joined[sender] # None
           /\ Runs(t, i, ChatTrade, res)
           /\ chats' = chats \o res.rows
           /\ UNCHANGED <<alive, participants, inbox, received>>
           /\ UNCHANGED ledgerVars
           /\ UNCHANGED frontVars
           /\ Records
           /\ UNCHANGED joined

\* join_room, line 75 returns, then line 78
AddParticipant ==
    \E t \in Clients :
        /\ tasks[t].pc = "add_participant"
        /\ broker = "redis"
        /\ participants' = participants \cup
                {[trade_id |-> tasks[t].trade_id,
                  identity_pubkey |-> tasks[t].identity_pubkey,
                  chat_pubkey |-> tasks[t].chat_pubkey]}
        /\ Runs(t, tasks[t].inst, tasks[t].trade_id,
                broadcast_join(rooms[tasks[t].inst], tasks[t], now))
        /\ UNCHANGED <<alive, inbox, received, chats, calls>>
        /\ UNCHANGED ledgerVars
        /\ UNCHANGED frontVars
        /\ Records
        /\ UNCHANGED joined

\* join_room, line 75 raises and lines 76-77 log it, then line 78
AddParticipantFails ==
    \E t \in Clients :
        /\ tasks[t].pc = "add_participant"
        /\ broker = "redis"
        /\ Runs(t, tasks[t].inst, tasks[t].trade_id,
                broadcast_join(rooms[tasks[t].inst], tasks[t], now))
        /\ UNCHANGED <<alive, participants, inbox, received, chats, calls>>
        /\ UNCHANGED ledgerVars
        /\ UNCHANGED frontVars
        /\ Records
        /\ UNCHANGED joined

\* leave_room after line 105 (or 107) for the first of `removed`
AfterRemove(t) ==
    LET T == [tasks[t] EXCEPT !.removed = Tail(@)]
    IN IF T.removed # <<>>
       THEN [rooms |-> rooms[T.inst], replaced |-> FALSE, task |-> T]
       ELSE LeaveEnd(rooms[T.inst], T, FALSE)

\* leave_room, line 105 returns
RemoveParticipant ==
    \E t \in DOMAIN tasks :
        /\ tasks[t].pc = "remove_participant"
        /\ broker = "redis"
        /\ participants' = participants \
                {[trade_id |-> tasks[t].trade_id,
                  identity_pubkey |-> Head(tasks[t].removed).identity_pubkey,
                  chat_pubkey |-> Head(tasks[t].removed).chat_pubkey]}
        /\ Runs(t, tasks[t].inst, tasks[t].trade_id, AfterRemove(t))
        /\ UNCHANGED <<alive, inbox, received, chats, calls>>
        /\ UNCHANGED ledgerVars
        /\ UNCHANGED frontVars
        /\ Records
        /\ UNCHANGED joined

\* leave_room, line 105 raises and lines 106-107 log it
RemoveParticipantFails ==
    \E t \in DOMAIN tasks :
        /\ tasks[t].pc = "remove_participant"
        /\ broker = "redis"
        /\ Runs(t, tasks[t].inst, tasks[t].trade_id, AfterRemove(t))
        /\ UNCHANGED <<alive, participants, inbox, received, chats, calls>>
        /\ UNCHANGED ledgerVars
        /\ UNCHANGED frontVars
        /\ Records
        /\ UNCHANGED joined

AfterSend_stopping(t) ==
    LET conn == Head(tasks[t].todo)
        T == [tasks[t] EXCEPT !.todo = IF alive[conn] THEN Tail(@) ELSE <<>>,
                              !.dead = IF alive[conn] THEN @ ELSE Append(@, conn)]
    IN IF T.todo # <<>>
       THEN [rooms |-> rooms[T.inst], replaced |-> FALSE, task |-> T]
       ELSE AfterLoop(rooms[T.inst], T)

\* _broadcast_local, lines 256-260: one send_json returns or raises
AfterSend(t) ==
    LET conn == Head(tasks[t].todo)
        T == [tasks[t] EXCEPT !.todo = Tail(@),
                              !.dead = IF alive[conn] THEN @ ELSE Append(@, conn)]
    IN IF T.todo # <<>>
       THEN [rooms |-> rooms[T.inst], replaced |-> FALSE, task |-> T]
       ELSE AfterLoop(rooms[T.inst], T)

Send ==
    \E t \in DOMAIN tasks :
        /\ tasks[t].pc = "send"
        /\ LET conn == Head(tasks[t].todo)
           IN received' = IF alive[conn]
                          THEN [received EXCEPT ![conn] = @ (+) SetToBag({tasks[t].message})]
                          ELSE received
        /\ Runs(t, tasks[t].inst, tasks[t].trade_id, AfterSend(t))
        /\ UNCHANGED <<alive, participants, inbox, chats, calls>>
        /\ UNCHANGED ledgerVars
        /\ UNCHANGED frontVars
        /\ Records
        /\ UNCHANGED joined

\* _emit, line 238 returns: Redis hands the text to every subscribed instance
Publish ==
    \E t \in Clients :
        /\ tasks[t].pc = "publish"
        /\ broker = "redis"
        /\ LET item == [channel |-> Channel(tasks[t].trade_id),
                        data |-> JsonDumpsMessage(
                            publish_message(tasks[t].message, broker_id(tasks[t].inst)))]
           IN inbox' = [i \in Instances |-> Append(inbox[i], item)]
        /\ tasks' = [tasks EXCEPT ![t] = Returned(@)]
        /\ UNCHANGED <<rooms, alive, participants, received, chats, calls>>
        /\ UNCHANGED ledgerVars
        /\ UNCHANGED frontVars
        /\ Records
        /\ UNCHANGED joined

\* _emit, line 238 raises: nothing catches it inside the service
PublishFails ==
    \E t \in Clients :
        /\ tasks[t].pc = "publish"
        /\ broker = "redis"
        /\ tasks' = [tasks EXCEPT ![t] = Raised(@, "BrokerError")]
        /\ UNCHANGED <<rooms, alive, participants, inbox, received, chats, calls>>
        /\ UNCHANGED ledgerVars
        /\ UNCHANGED frontVars
        /\ Records
        /\ UNCHANGED joined

\* another publisher writes to the channel of the trade: Redis hands the
\* text to every subscribed instance
ForeignPublish ==
    \E data \in ForeignTexts :
        /\ broker = "redis"
        /\ calls < MaxCalls
        /\ calls' = calls + 1
        /\ inbox' = [i \in Instances |->
                        Append(inbox[i], [channel |-> Channel(ChatTrade), data |-> data])]
        /\ UNCHANGED <<rooms, alive, participants, tasks, received, chats>>
        /\ UNCHANGED ledgerVars
        /\ UNCHANGED frontVars
        /\ Records
        /\ UNCHANGED joined

\* RedisChatBroker.listen, lines 106-123: the listener of instance i takes
\* the next item; a text json.loads rejects is skipped, any other payload
\* goes to _handle_broker_message, whose message.get (service.py:243)
\* raises AttributeError on a payload that is no dict. An exception of the
\* handler leaves listen and run_broker_listener (service.py:39-44) returns:
\* the coroutine stays at "raised" and takes no further item
Handle ==
    \E i \in Instances :
        /\ tasks[i].pc = "idle"
        /\ inbox[i] # <<>>
        /\ inbox' = [inbox EXCEPT ![i] = Tail(@)]
        /\ LET item == Head(inbox[i])
               trade_id == TradeOfChannel(item.channel)
               payload == item_loads(item.data)
           IN IF ~payload.valid
              THEN UNCHANGED <<rooms, tasks>>
              ELSE IF ~payload.dict
              THEN /\ tasks' = [tasks EXCEPT ![i] =
                                    Raised(Call("handle", i, trade_id), "AttributeError")]
                   /\ UNCHANGED rooms
              ELSE Runs(i, i, trade_id,
                        handle_broker_message(rooms[i], Call("handle", i, trade_id),
                                              payload.value))
        /\ UNCHANGED <<alive, participants, received, chats, calls>>
        /\ UNCHANGED ledgerVars
        /\ UNCHANGED frontVars
        /\ Records
        /\ UNCHANGED joined

\* the connections whose peer may go away
Breakable == {"c2"}

\* the peer of a connection in a room goes away: send_json raises from now on
Break ==
    \E conn \in Breakable :
        /\ alive[conn]
        /\ \E trade_id \in DOMAIN rooms[InstanceOf(conn)] :
            \E n \in DOMAIN rooms[InstanceOf(conn)][trade_id] :
                rooms[InstanceOf(conn)][trade_id][n].conn = conn
        /\ alive' = [alive EXCEPT ![conn] = FALSE]
        /\ UNCHANGED <<rooms, participants, inbox, tasks, received, chats, calls>>
        /\ UNCHANGED ledgerVars
        /\ UNCHANGED frontVars
        /\ Records
        /\ UNCHANGED joined

\* the caller of a service call that raised takes the exception
TaskReturn ==
    \E t \in Callers :
        /\ tasks[t].pc = "raised"
        /\ tasks' = [tasks EXCEPT ![t] = IdleTask]
        /\ UNCHANGED <<rooms, alive, participants, inbox, received, chats, calls>>
        /\ UNCHANGED ledgerVars
        /\ UNCHANGED frontVars
        /\ Records
        /\ UNCHANGED joined

NextChat ==
    \/ CallJoin \/ CallLeave \/ CallRelay
    \/ AddParticipant \/ AddParticipantFails
    \/ RemoveParticipant \/ RemoveParticipantFails
    \/ Send \/ Publish \/ PublishFails \/ Handle \/ Break \/ TaskReturn

SpecChat == Init /\ [][NextChat]_vars

\* the chat service over a broker whose calls all return
NextChatReliable ==
    \/ CallJoin \/ CallLeave \/ CallRelay
    \/ AddParticipant \/ RemoveParticipant
    \/ Send \/ Publish \/ Handle \/ Break \/ TaskReturn

SpecChatReliable == Init /\ [][NextChatReliable]_vars

\* the identity a connection joins with in the states below
MemberIdentity(conn) ==
    IF conn = "c1" THEN "k1" ELSE CHOOSE k \in IdentitiesOf(conn) : TRUE

\* the state once join_room has run to its end for each connection of
\* `members`, one call after the other, and the listeners have taken every
\* JOIN message: each connection has got its own JOIN and those of the
\* later ones. `calls` counts the service calls made from here on, and
\* `on` tells whether the history is kept from here on
JoinedState(members, on) ==
    LET entry(n) == Entry(members[n], MemberIdentity(members[n]),
                          ChatKeyOf(MemberIdentity(members[n])))
        join(n) == join_message(ChatTrade, entry(n).identity_pubkey,
                                entry(n).chat_pubkey, 0)
        at(i) == SelectSeq([n \in DOMAIN members |-> entry(n)],
                           LAMBDA e : InstanceOf(e.conn) = i)
    IN /\ blocks = <<>>
       /\ trades = <<>>
       /\ now = 0
       /\ req = NoRequest
       /\ result = "ok"
       /\ pc = [w \in Workers |-> "idle"]
       /\ wdata = [w \in Workers |-> NoBlockData]
       /\ wlast = [w \in Workers |-> None]
       /\ wres = [w \in Workers |-> NoResult]
       /\ rooms = [i \in Instances |->
                        IF at(i) = <<>> THEN NoRooms
                        ELSE [trade_id \in {ChatTrade} |-> at(i)]]
       /\ alive = [c \in Conns |-> TRUE]
       /\ participants =
            {[trade_id |-> ChatTrade, identity_pubkey |-> entry(n).identity_pubkey,
              chat_pubkey |-> entry(n).chat_pubkey] : n \in DOMAIN members}
       /\ inbox = [i \in Instances |-> <<>>]
       /\ tasks = [t \in Clients \cup Instances |-> IdleTask]
       /\ received = [c \in Conns |->
                        SetToBag({join(m) : m \in {k \in DOMAIN members :
                            \E n \in DOMAIN members : members[n] = c /\ n <= k}})]
       /\ chats = <<>>
       /\ calls = 0
       /\ joined = [c \in Conns |->
                        IF \E n \in DOMAIN members : members[n] = c
                        THEN Some(entry(CHOOSE n \in DOMAIN members : members[n] = c))
                        ELSE None]
       /\ broker = "redis"
       /\ info = NoInfo
       /\ handler = [c \in Conns |-> NoHandler]
       /\ hist = NoHistory(on)

\* c1 and then c2 have joined the room on instance X
InitJoined == JoinedState(<<"c1", "c2">>, FALSE)

\* c1 and c2 on instance X and then c3 on instance Y have joined
InitRoom == JoinedState(<<"c1", "c2", "c3">>, TRUE)

\* the chat service from a room of two members, over a broker whose calls
\* all return
SpecLeaves == InitJoined /\ [][NextChatReliable]_vars

\* c1 and then c2 have joined the room on instance X; the history is kept
InitPair == JoinedState(<<"c1", "c2">>, TRUE)

NextOrder ==
    \/ CallRelay \/ Send \/ Publish \/ PublishFails \/ Handle \/ TaskReturn \/ Tick

\* relay calls of two coroutines in a room of two local members, the clock
\* passing between them
SpecOrder == InitPair /\ [][NextOrder]_vars

\* the chat service from a room with members on both instances, with the
\* history kept
NextHistory ==
    \/ CallJoin \/ CallLeave \/ CallRelay
    \/ AddParticipant \/ RemoveParticipant
    \/ Send \/ Publish \/ PublishFails \/ Handle \/ Break \/ TaskReturn

SpecHistory == InitRoom /\ [][NextHistory]_vars

\* the chat service on a bus that other publishers write to as well
NextBus ==
    \/ CallJoin \/ CallRelay \/ AddParticipant
    \/ Send \/ Publish \/ Handle \/ ForeignPublish

SpecBus == Init /\ [][NextBus]_vars

-----------------------------------------------------------------------------
(* get_room_info over the two brokers lifespan can set.  The calls of the  *)
(* no-op broker return without suspending their caller, so a service call  *)
(* over it runs on to its next send_json.                                  *)

BrokerKinds == {"redis", "noop"}

\* RedisChatBroker.add_participant, lines 65-70: the member of the Redis set
participant_entry(identity_pubkey, chat_pubkey) ==
    "{" \o JsonDumpsMembers([identity_pubkey |-> identity_pubkey,
                             chat_pubkey |-> chat_pubkey],
                            <<"identity_pubkey", "chat_pubkey">>, 1) \o "}"

\* RedisChatBroker.get_participants, line 97: json.loads of a member,
\* computed once for each member the set can hold
LoadedEntries ==
    {<<participant_entry(k, ChatKeyOf(k)), json_loads(participant_entry(k, ChatKeyOf(k)))>> :
        k \in Identities}

get_participants_loads(entry) == (CHOOSE p \in LoadedEntries : p[1] = entry)[2]

\* the orders in which SMEMBERS can return the members of a set
Orders(S) ==
    {order \in [1..Cardinality(S) -> S] :
        \A m, n \in 1..Cardinality(S) : order[m] = order[n] => m = n}

\* RedisChatBroker.get_participants, lines 93-100, for the members in the
\* order Redis returned them
get_participants(entries) ==
    [n \in DOMAIN entries |->
        get_participants_loads(participant_entry(entries[n].identity_pubkey,
                                                 entries[n].chat_pubkey))]

\* get_room_info, lines 197-204
local_info(R, trade_id) ==
    LET room == IF trade_id \in DOMAIN R THEN R[trade_id] ELSE <<>>
    IN [n \in DOMAIN room |->
            [identity_pubkey |-> room[n].identity_pubkey,
             chat_pubkey |-> room[n].chat_pubkey, connected |-> TRUE]]

get_room_info_local(found, R, trade_id) == local_info(R, trade_id)

\* get_room_info, lines 187-204, once get_participants has returned `found`
get_room_info(found, R, trade_id) ==
    IF found # <<>>
    THEN [n \in DOMAIN found |->
            [identity_pubkey |-> found[n].identity_pubkey,
             chat_pubkey |-> found[n].chat_pubkey, connected |-> TRUE]]
    ELSE local_info(R, trade_id)

\* get_room_info, line 186 over Redis: SMEMBERS is answered and the caller
\* stays suspended until the event loop resumes it
GetParticipants ==
    \E i \in Instances :
    \E entries \in Orders({p \in participants : p.trade_id = ChatTrade}) :
        /\ broker = "redis"
        /\ info.pc # "get_participants"
        /\ calls < MaxCalls
        /\ calls' = calls + 1
        /\ info' = [pc |-> "get_participants", inst |-> i, trade_id |-> ChatTrade,
                    participants |-> get_participants(entries), result |-> <<>>]
        /\ UNCHANGED <<rooms, alive, participants, inbox, tasks, received, chats, joined>>
        /\ UNCHANGED <<broker, handler>>
        /\ Records
        /\ UNCHANGED ledgerVars

\* get_room_info resumes after line 186 and returns
GetRoomInfo ==
    /\ info.pc = "get_participants"
    /\ info' = [info EXCEPT !.pc = "returned",
                            !.result = get_room_info(info.participants, rooms[info.inst],
                                                     info.trade_id)]
    /\ UNCHANGED <<rooms, alive, participants, inbox, tasks, received, chats, calls, joined>>
    /\ UNCHANGED <<broker, handler>>
    /\ Records
    /\ UNCHANGED ledgerVars

\* get_room_info over the no-op broker: get_participants returns [] at once
NoopGetRoomInfo ==
    \E i \in Instances :
        /\ broker = "noop"
        /\ calls < MaxCalls
        /\ calls' = calls + 1
        /\ info' = [pc |-> "returned", inst |-> i, trade_id |-> ChatTrade,
                    participants |-> <<>>,
                    result |-> get_room_info(<<>>, rooms[i], ChatTrade)]
        /\ UNCHANGED <<rooms, alive, participants, inbox, tasks, received, chats, joined>>
        /\ UNCHANGED <<broker, handler>>
        /\ Records
        /\ UNCHANGED ledgerVars

\* join_room over the no-op broker: lines 59-78 and the JOIN broadcast up to
\* its first send_json
NoopJoin ==
    \E t \in Callers : \E conn \in Conns : \E identity_pubkey \in IdentitiesOf(conn) :
        LET i == InstanceOf(conn)
            T == [Call("join_room", i, ChatTrade) EXCEPT
                    !.conn = conn, !.identity_pubkey = identity_pubkey,
                    !.chat_pubkey = ChatKeyOf(identity_pubkey)]
            res == join_room(rooms[i], T)
            b == IF res.task.pc = "add_participant"
                 THEN broadcast_join(res.rooms, res.task, now)
                 ELSE [rooms |-> res.rooms, replaced |-> FALSE, task |-> res.task]
        IN /\ Starts(t)
           /\ broker = "noop"
           /\ joined[conn] = None \/ conn \in Rejoining
           /\ rooms' = [rooms EXCEPT ![i] = b.rooms]
           /\ tasks' = Coroutines(t, i, ChatTrade, b.task, res.appended, FALSE)
           /\ joined' = [joined EXCEPT ![conn] = Some(Entry(conn, T.identity_pubkey, T.chat_pubkey))]
           /\ UNCHANGED <<alive, participants, inbox, received, chats>>
           /\ UNCHANGED ledgerVars
           /\ UNCHANGED frontVars
           /\ Records

\* leave_room over the no-op broker: lines 89-111 without a suspension
NoopLeave ==
    \E t \in Callers : \E conn \in Conns :
        LET i == InstanceOf(conn)
            T == [Call("leave_room", i, ChatTrade) EXCEPT !.conn = conn, !.dead = <<conn>>]
            r == leave_room(rooms[i], T, FALSE)
            res == IF r.task.pc = "remove_participant"
                   THEN LeaveEnd(r.rooms, [r.task EXCEPT !.removed = <<>>], TRUE)
                   ELSE r
        IN /\ Starts(t)
           /\ broker = "noop"
           /\ joined[conn] # None
           /\ Runs(t, i, ChatTrade, res)
           /\ UNCHANGED <<alive, participants, inbox, received, chats>>
           /\ UNCHANGED ledgerVars
           /\ UNCHANGED frontVars
           /\ Records
           /\ UNCHANGED joined

\* _emit, line 238 over the no-op broker: nothing is published
NoopPublish ==
    \E t \in Callers :
        /\ tasks[t].pc = "publish"
        /\ broker = "noop"
        /\ tasks' = [tasks EXCEPT ![t] = Returned(@)]
        /\ UNCHANGED <<rooms, alive, participants, inbox, received, chats, calls>>
        /\ UNCHANGED ledgerVars
        /\ UNCHANGED frontVars
        /\ Records
        /\ UNCHANGED joined

InitInfo == \E kind \in BrokerKinds : InitWith(kind)

NextInfo ==
    \/ CallJoin \/ CallLeave \/ AddParticipant \/ RemoveParticipant
    \/ Publish \/ Handle \/ Send
    \/ NoopJoin \/ NoopLeave \/ NoopPublish
    \/ GetParticipants \/ GetRoomInfo \/ NoopGetRoomInfo

SpecInfo == InitInfo /\ [][NextInfo]_vars

-----------------------------------------------------------------------------
(* chat_websocket of server/interfaces/http/routers/chat.py: the handler   *)
(* of one connection, from accept to its end.  Its service calls run as    *)
(* the coroutine tasks[conn]; close() is taken to return.                  *)

\* the connections whose handler runs
Sockets == {"c1"}

\* the identity a client authenticates with
AuthIdentity(conn) ==
    CASE conn = "c1" -> "k1" [] conn = "c2" -> "k2" [] OTHER -> "k3"

\* a frame {"type": ..., "identity_pubkey": ..., "chat_pubkey": ...}
auth_frame(type, identity_pubkey, chat_pubkey) ==
    "{" \o JsonDumpsMembers([type |-> type, identity_pubkey |-> identity_pubkey,
                             chat_pubkey |-> chat_pubkey],
                            <<"type", "identity_pubkey", "chat_pubkey">>, 1) \o "}"

\* the first frames a client may send; only the clients of Senders send
\* other frames than the auth message
AuthFrames(conn) ==
    LET k == AuthIdentity(conn)
    IN {auth_frame("auth", k, ChatKeyOf(k))} \cup
        IF conn \in Senders
        THEN {auth_frame("CHAT", k, ChatKeyOf(k)),
              "{" \o JsonDumpsMembers([type |-> "auth", identity_pubkey |-> k],
                                      <<"type", "identity_pubkey">>, 1) \o "}",
              "hello"}
        ELSE {}

\* the frames a client may send in the message loop
chat_frame(ciphertext) ==
    "{" \o JsonDumpsMembers([type |-> "CHAT", ciphertext |-> ciphertext],
                            <<"type", "ciphertext">>, 1) \o "}"

typed_frame(type) == "{" \o JsonDumpsMembers([type |-> type], <<"type">>, 1) \o "}"

LoopFrames ==
    {chat_frame(c) : c \in Ciphertexts} \cup Ciphertexts
        \cup {typed_frame("JOIN"), typed_frame("PING"), typed_frame("NOOP"), "5"}

FrameTexts == UNION {AuthFrames(conn) : conn \in Conns} \cup LoopFrames

\* json.loads of a frame (chat.py:102, and inside model_validate_json),
\* computed once for each text a client can send
LoadedFrames ==
    {[text |-> text, valid |-> IsJson(text),
      dict |-> IsJson(text) /\ ParseValue(text, 1).raw[1] = "obj",
      value |-> IF IsJson(text) /\ ParseValue(text, 1).raw[1] = "obj"
                THEN json_loads(text) ELSE <<>>] : text \in FrameTexts}

frame_loads(data) == CHOOSE f \in LoadedFrames : f.text = data

\* message.get(key) of a dict
DictGet(value, key) == IF key \in DOMAIN value THEN Some(value[key]) ELSE None

\* ChatAuthMessage.model_validate_json(data), chat.py:65 and schemas/chat.py
\* 12-17: None stands for the ValidationError
model_validate_json(data) ==
    LET f == frame_loads(data)
    IN IF f.dict /\ {"type", "identity_pubkey", "chat_pubkey"} \subseteq DOMAIN f.value
       THEN Some([type |-> f.value["type"],
                  identity_pubkey |-> f.value["identity_pubkey"],
                  chat_pubkey |-> f.value["chat_pubkey"]])
       ELSE None

\* websocket.close(code, reason) and the return of the handler
Closed(h, code, reason) == [h EXCEPT !.pc = "done", !.code = code, !.reason = reason]

Handler(conn, h) == handler' = [handler EXCEPT ![conn] = h]

Accept_unchecked ==
    \E conn \in Sockets :
        /\ handler[conn].pc = "none"
        /\ alive[conn]
        /\ ~Pending
        /\ Handler(conn, [NoHandler EXCEPT !.pc = "auth",
                                           !.found = get_trade(ChatTrade) # None])
        /\ UNCHANGED <<rooms, alive, participants, inbox, tasks, received, chats, calls, joined>>
        /\ UNCHANGED <<broker, info>>
        /\ Records
        /\ UNCHANGED ledgerVars

\* lines 45-53: accept, then the lookup of the trade
Accept ==
    \E conn \in Sockets :
        /\ handler[conn].pc = "none"
        /\ alive[conn]
        /\ ~Pending
        /\ LET h == [NoHandler EXCEPT !.pc = "auth", !.found = get_trade(ChatTrade) # None]
           IN Handler(conn, IF h.found THEN h ELSE Closed(h, 1008, "Trade not found"))
        /\ UNCHANGED <<rooms, alive, participants, inbox, tasks, received, chats, calls, joined>>
        /\ UNCHANGED <<broker, info>>
        /\ Records
        /\ UNCHANGED ledgerVars

\* lines 59-84: the first frame arrives, is validated, and join_room runs up
\* to its return or its first await
ReceiveAuth ==
    \E conn \in Sockets : \E data \in AuthFrames(conn) :
        LET i == InstanceOf(conn)
            h == [handler[conn] EXCEPT !.first = data]
            auth_data == model_validate_json(data)
            T == [Call("join_room", i, ChatTrade) EXCEPT
                    !.conn = conn, !.identity_pubkey = auth_data[1].identity_pubkey,
                    !.chat_pubkey = auth_data[1].chat_pubkey]
            res == join_room(rooms[i], T)
        IN /\ handler[conn].pc = "auth"
           /\ alive[conn]
           /\ broker = "redis"
           /\ IF auth_data = None
              THEN /\ Handler(conn, Closed(h, 1008, "Invalid authentication payload"))
                   /\ UNCHANGED <<rooms, tasks, joined>>
              ELSE IF auth_data[1].type # "auth"
              THEN /\ Handler(conn, Closed(h, 1008, "Authentication required"))
                   /\ UNCHANGED <<rooms, tasks, joined>>
              ELSE /\ Handler(conn, [h EXCEPT !.pc = "join", !.joins = @ + 1,
                                              !.identity_pubkey = T.identity_pubkey,
                                              !.chat_pubkey = T.chat_pubkey])
                   /\ rooms' = [rooms EXCEPT ![i] = res.rooms]
                   /\ tasks' = Coroutines(conn, i, ChatTrade, res.task, res.appended, FALSE)
                   /\ joined' = [joined EXCEPT ![conn] =
                                    Some(Entry(conn, T.identity_pubkey, T.chat_pubkey))]
           /\ UNCHANGED <<alive, participants, inbox, received, chats, calls>>
           /\ UNCHANGED <<broker, info>>
           /\ Records
           /\ UNCHANGED ledgerVars

AuthTimeout_anywhere ==
    \E conn \in Sockets :
        /\ handler[conn].pc \in {"auth", "receive"}
        /\ Handler(conn, Closed(handler[conn], 1008, "Authentication timeout"))
        /\ UNCHANGED <<rooms, alive, participants, inbox, tasks, received, chats, calls, joined>>
        /\ UNCHANGED <<broker, info>>
        /\ Records
        /\ UNCHANGED ledgerVars

\* lines 59-62: no frame within the timeout of wait_for
AuthTimeout ==
    \E conn \in Sockets :
        /\ handler[conn].pc = "auth"
        /\ Handler(conn, Closed(handler[conn], 1008, "Authentication timeout"))
        /\ UNCHANGED <<rooms, alive, participants, inbox, tasks, received, chats, calls, joined>>
        /\ UNCHANGED <<broker, info>>
        /\ Records
        /\ UNCHANGED ledgerVars

\* the peer of a connection goes away after accept
Disconnect ==
    \E conn \in Sockets :
        /\ alive[conn]
        /\ handler[conn].pc \notin {"none", "done"}
        /\ alive' = [alive EXCEPT ![conn] = FALSE]
        /\ UNCHANGED <<rooms, participants, inbox, tasks, received, chats, calls, joined>>
        /\ UNCHANGED frontVars
        /\ Records
        /\ UNCHANGED ledgerVars

\* lines 139-144: the handler of an exception calls leave_room, which runs
\* up to its return or its first await
Leaves(conn, cause) ==
    LET i == InstanceOf(conn)
        T == [Call("leave_room", i, ChatTrade) EXCEPT !.conn = conn, !.dead = <<conn>>]
    IN /\ Runs(conn, i, ChatTrade, leave_room(rooms[i], T, FALSE))
       /\ Handler(conn, [handler[conn] EXCEPT !.pc = "leave", !.cause = cause,
                                              !.leaves = @ + 1])

ReceiveDisconnect_returning ==
    \E conn \in Sockets :
        /\ handler[conn].pc \in {"auth", "receive"}
        /\ ~alive[conn]
        /\ Handler(conn, [handler[conn] EXCEPT !.pc = "done", !.cause = "WebSocketDisconnect"])
        /\ UNCHANGED <<rooms, tasks>>
        /\ UNCHANGED <<alive, participants, inbox, received, chats, calls, joined>>
        /\ UNCHANGED <<broker, info>>
        /\ Records
        /\ UNCHANGED ledgerVars

\* receive_text raises WebSocketDisconnect, at line 59 or at line 99
ReceiveDisconnect ==
    \E conn \in Sockets :
        /\ handler[conn].pc \in {"auth", "receive"}
        /\ ~alive[conn]
        /\ Leaves(conn, "WebSocketDisconnect")
        /\ UNCHANGED <<alive, participants, inbox, received, chats, calls, joined>>
        /\ UNCHANGED <<broker, info>>
        /\ Records
        /\ UNCHANGED ledgerVars

\* join_room has returned: lines 85-95, the auth_response is sent, or the
\* send raises into the handlers of lines 139-144
AfterJoin ==
    \E conn \in Sockets :
        /\ handler[conn].pc = "join"
        /\ tasks[conn].pc = "idle"
        /\ IF alive[conn]
           THEN /\ Handler(conn, [handler[conn] EXCEPT !.pc = "receive", !.sent = @ + 1])
                /\ UNCHANGED <<rooms, tasks>>
           ELSE Leaves(conn, "Exception")
        /\ UNCHANGED <<alive, participants, inbox, received, chats, calls, joined>>
        /\ UNCHANGED <<broker, info>>
        /\ Records
        /\ UNCHANGED ledgerVars

\* join_room has raised: lines 142-144
JoinRaised ==
    \E conn \in Sockets :
        /\ handler[conn].pc = "join"
        /\ tasks[conn].pc = "raised"
        /\ Leaves(conn, "Exception")
        /\ UNCHANGED <<alive, participants, inbox, received, chats, calls, joined>>
        /\ UNCHANGED <<broker, info>>
        /\ Records
        /\ UNCHANGED ledgerVars

\* the coroutine a frame of the message loop starts (lines 102-135), `None`
\* when the frame is processed without a call of the chat service
FrameCall(conn, data) ==
    LET i == InstanceOf(conn)
        h == handler[conn]
        f == frame_loads(data)
        type == IF f.dict THEN DictGet(f.value, "type") ELSE None
        ciphertext == IF f.dict THEN DictGet(f.value, "ciphertext") ELSE None
        buyer == IF f.dict /\ DictGet(f.value, "buyer_chat_pubkey") # None
                    /\ f.value["buyer_chat_pubkey"] # ""
                 THEN f.value["buyer_chat_pubkey"] ELSE h.chat_pubkey
        T(op) == [Call(op, i, ChatTrade) EXCEPT
                    !.conn = conn, !.identity_pubkey = h.identity_pubkey,
                    !.chat_pubkey = h.chat_pubkey]
    IN IF ~f.valid
       THEN Some([clause |-> "except",
                  res |-> relay(rooms[i], T("relay"), data, h.chat_pubkey,
                                h.chat_pubkey, TRUE, now)])
       ELSE IF type = Some("CHAT") /\ ciphertext # None /\ ciphertext # Some("")
       THEN Some([clause |-> "try",
                  res |-> relay(rooms[i], T("relay"), ciphertext[1], h.chat_pubkey,
                                buyer, TRUE, now)])
       ELSE IF type = Some("JOIN")
       THEN Some([clause |-> "try",
                  res |-> LET b == broadcast_join(rooms[i], T("broadcast_join"), now)
                          IN [rooms |-> b.rooms, replaced |-> b.replaced,
                              task |-> b.task, rows |-> <<>>]])
       ELSE None

\* lines 99-135: a frame arrives in the message loop and is processed up to
\* the next await; `sent` tells whether the send_json of a PONG returns
ReceiveFrame ==
    \E conn \in Sockets \cap Senders : \E data \in LoopFrames : \E sent \in BOOLEAN :
        LET i == InstanceOf(conn)
            h == handler[conn]
            f == frame_loads(data)
            ping == f.dict /\ DictGet(f.value, "type") = Some("PING")
            call == FrameCall(conn, data)
        IN /\ handler[conn].pc = "receive"
           /\ alive[conn]
           /\ calls < MaxCalls
           /\ calls' = calls + 1
           /\ ping \/ sent
           /\ alive' = IF ping /\ ~sent THEN [alive EXCEPT ![conn] = FALSE] ELSE alive
           /\ IF call = None
              THEN /\ Handler(conn, [h EXCEPT !.sent = IF ping /\ sent THEN @ + 1 ELSE @])
                   /\ UNCHANGED <<rooms, tasks, chats>>
              ELSE /\ Handler(conn, [h EXCEPT !.pc = "call", !.clause = call[1].clause])
                   /\ Runs(conn, i, ChatTrade, call[1].res)
                   /\ chats' = chats \o call[1].res.rows
           /\ UNCHANGED <<participants, inbox, received, joined>>
           /\ UNCHANGED <<broker, info>>
           /\ Records
           /\ UNCHANGED ledgerVars

\* the service call of a frame has returned, or has raised inside the try
\* of line 101, whose `except Exception` logs it (136-137): the loop goes on
AfterCall ==
    \E conn \in Sockets :
        /\ handler[conn].pc = "call"
        /\ tasks[conn].pc = "idle"
                \/ (tasks[conn].pc = "raised" /\ handler[conn].clause = "try")
        /\ Handler(conn, [handler[conn] EXCEPT !.pc = "receive"])
        /\ tasks' = [tasks EXCEPT ![conn] = IdleTask]
        /\ UNCHANGED <<rooms, alive, participants, inbox, received, chats, calls, joined>>
        /\ UNCHANGED <<broker, info>>
        /\ Records
        /\ UNCHANGED ledgerVars

\* the relay of line 135 has raised: it runs inside the clause of line 132,
\* so the exception leaves the loop for the handler of line 142
CallRaised ==
    \E conn \in Sockets :
        /\ handler[conn].pc = "call"
        /\ tasks[conn].pc = "raised" /\ handler[conn].clause = "except"
        /\ Leaves(conn, "Exception")
        /\ UNCHANGED <<alive, participants, inbox, received, chats, calls, joined>>
        /\ UNCHANGED <<broker, info>>
        /\ Records
        /\ UNCHANGED ledgerVars

\* leave_room is over: after line 141 the handler returns; after line 144 it
\* closes with 1011 (145-148); a leave_room that raised ends the handler
AfterLeave ==
    \E conn \in Sockets :
        LET h == handler[conn]
        IN /\ h.pc = "leave"
           /\ tasks[conn].pc \in {"idle", "raised"}
           /\ Handler(conn, IF tasks[conn].pc = "idle" /\ h.cause = "Exception" /\ alive[conn]
                            THEN Closed(h, 1011, "Internal server error")
                            ELSE [h EXCEPT !.pc = "done"])
           /\ tasks' = [tasks EXCEPT ![conn] = IdleTask]
           /\ UNCHANGED <<rooms, alive, participants, inbox, received, chats, calls, joined>>
           /\ UNCHANGED <<broker, info>>
           /\ Records
           /\ UNCHANGED ledgerVars

\* the seller's create request for the trade of the room arrives
ReceiveFromSeller ==
    /\ ~Pending
    /\ get_trade(ChatTrade) = None
    /\ \E payload \in PartyRequests :
        /\ payload.op = "create" /\ payload.trade_id = ChatTrade
        /\ payload.signature = Sign("k1", ChatTrade)
        /\ req' = payload
    /\ result' = ""
    /\ UNCHANGED <<blocks, trades, now, pc, wdata, wlast, wres>>
    /\ UNCHANGED chatVars

NextSocket ==
    \/ ReceiveFromSeller \/ Create
    \/ Accept \/ ReceiveAuth \/ AuthTimeout \/ Disconnect \/ ReceiveDisconnect
    \/ AfterJoin \/ JoinRaised \/ ReceiveFrame \/ AfterCall \/ CallRaised \/ AfterLeave
    \/ AddParticipant \/ RemoveParticipant \/ Send \/ Publish \/ PublishFails \/ Handle

SpecSocket == Init /\ [][NextSocket]_vars

\* line 100 returns a frame the peer sent before it went away: the server
\* has read it already and hands it over before the disconnect. A send_json
\* to the connection raises by now, that of a PONG included (its exception
\* is logged at 136-137)
ReceiveQueued ==
    \E conn \in Sockets \cap Senders : \E data \in LoopFrames :
        LET i == InstanceOf(conn)
            h == handler[conn]
            call == FrameCall(conn, data)
        IN /\ handler[conn].pc = "receive"
           /\ ~alive[conn]
           /\ calls < MaxCalls
           /\ calls' = calls + 1
           /\ IF call = None
              THEN UNCHANGED <<rooms, tasks, chats, handler>>
              ELSE /\ Handler(conn, [h EXCEPT !.pc = "call", !.clause = call[1].clause])
                   /\ Runs(conn, i, ChatTrade, call[1].res)
                   /\ chats' = chats \o call[1].res.rows
           /\ UNCHANGED <<alive, participants, inbox, received, joined>>
           /\ UNCHANGED <<broker, info>>
           /\ Records
           /\ UNCHANGED ledgerVars

\* the create request of the seller for the trade of the room
SellerCreate ==
    CreateBlock(ChatTrade, ContentHash, "k1", Sign("k1", ChatTrade),
                CreateBody(ChatTrade).description, CreateBody(ChatTrade).price)

\* the trade of the room is stored and c2 has joined its room on instance X;
\* no handler of Sockets runs yet
InitPeer ==
    /\ blocks = insert_block(<<>>, append_block(SellerCreate, None, 0, 0).block[1])
    /\ trades = project_block(<<>>, SellerCreate)
    /\ now = 0
    /\ req = NoRequest
    /\ result = "ok"
    /\ pc = [w \in Workers |-> "idle"]
    /\ wdata = [w \in Workers |-> NoBlockData]
    /\ wlast = [w \in Workers |-> None]
    /\ wres = [w \in Workers |-> NoResult]
    /\ rooms = [i \in Instances |->
                    IF i = "X"
                    THEN [trade_id \in {ChatTrade} |->
                            <<Entry("c2", MemberIdentity("c2"), ChatKeyOf(MemberIdentity("c2")))>>]
                    ELSE NoRooms]
    /\ alive = [c \in Conns |-> TRUE]
    /\ participants = {[trade_id |-> ChatTrade, identity_pubkey |-> MemberIdentity("c2"),
                        chat_pubkey |-> ChatKeyOf(MemberIdentity("c2"))]}
    /\ inbox = [i \in Instances |-> <<>>]
    /\ tasks = [t \in Clients \cup Instances |-> IdleTask]
    /\ received = [c \in Conns |->
                    IF c = "c2"
                    THEN SetToBag({join_message(ChatTrade, MemberIdentity("c2"),
                                                ChatKeyOf(MemberIdentity("c2")), 0)})
                    ELSE EmptyBag]
    /\ chats = <<>>
    /\ calls = 0
    /\ joined = [c \in Conns |->
                    IF c = "c2"
                    THEN Some(Entry("c2", MemberIdentity("c2"), ChatKeyOf(MemberIdentity("c2"))))
                    ELSE None]
    /\ broker = "redis"
    /\ info = NoInfo
    /\ handler = [c \in Conns |-> NoHandler]
    /\ hist = NoHistory(FALSE)

NextQueued ==
    \/ Accept \/ ReceiveAuth \/ AuthTimeout \/ Disconnect \/ ReceiveDisconnect
    \/ AfterJoin \/ JoinRaised \/ ReceiveFrame \/ ReceiveQueued \/ AfterCall
    \/ CallRaised \/ AfterLeave
    \/ AddParticipant \/ RemoveParticipant \/ Send \/ Publish \/ PublishFails \/ Handle

\* chat_websocket for c1 next to a member of the room, with frames that are
\* handed over after the peer has gone
SpecQueued == InitPeer /\ [][NextQueued]_vars

\* the steps that need no client: the event loop runs a coroutine that can
\* go on, the timer of wait_for fires, a broker call returns or raises
Resumes ==
    \/ AuthTimeout \/ ReceiveDisconnect \/ AfterJoin \/ JoinRaised
    \/ AfterCall \/ CallRaised \/ AfterLeave
    \/ AddParticipant \/ RemoveParticipant \/ Send \/ Publish \/ PublishFails \/ Handle

\* the event loop never stops while one of them can be taken
FairSocket == WF_vars(Resumes)

\* the frames the client sends in the message loop of the fair specification
MaxFrames == 1

ReceiveFrames == calls < MaxFrames /\ ReceiveFrame

NextSocketFair ==
    \/ ReceiveFromSeller \/ Create
    \/ Accept \/ ReceiveAuth \/ AuthTimeout \/ Disconnect \/ ReceiveDisconnect
    \/ AfterJoin \/ JoinRaised \/ ReceiveFrames \/ AfterCall \/ CallRaised \/ AfterLeave
    \/ AddParticipant \/ RemoveParticipant \/ Send \/ Publish \/ PublishFails \/ Handle

SpecSocketFair == Init /\ [][NextSocketFair]_vars /\ FairSocket

-----------------------------------------------------------------------------
(* Properties *)

\* the step runs the handler of the request that was waiting
Handles == Pending /\ req' = NoRequest

Rows == {blocks[i] : i \in DOMAIN blocks}

StatusOf(table, trade_id) ==
    IF trade_id \in DOMAIN table THEN table[trade_id].status ELSE "absent"

\* the row the step stores, and the document of a row
NewRow == blocks'[Len(blocks')]

Doc(row) == json_loads(row.payload_json)

\* the step stores one more block, of the given type
Appends(type) ==
    /\ Len(blocks') = Len(blocks) + 1
    /\ SubSeq(blocks', 1, Len(blocks)) = blocks
    /\ NewRow.type = type

\* C1: after appends made one at a time the stored chain is linked: the block
\* of index 0 has the prev_hash of 64 zeros, and a block of index i > 0 has the
\* prev_hash equal to the stored hash of the block of index i-1.
C1_ChainLinked ==
    /\ Len(GenesisHash) = 64
    /\ \A b \in Rows :
        /\ b.block_index = 0 => b.prev_hash = GenesisHash
        /\ b.block_index > 0 =>
            /\ \E c \in Rows : c.block_index = b.block_index - 1
            /\ \A c \in Rows : c.block_index = b.block_index - 1 => b.prev_hash = c.block_hash

C1_Witness == Len(blocks) >= 3 /\ blocks[3].block_index = 2

\* C2: when the second of two racing appends read the latest block before the
\* first one inserted, the second fails with the chain-broken error and the
\* chain grows by one block only: no two stored blocks share an index or a
\* prev_hash.
C2_RaceRejected ==
    /\ \A w \in Workers :
        pc[w] = "done" /\ wres[w].stale => wres[w].err = ChainBroken
    /\ \A i, j \in DOMAIN blocks :
        i # j => /\ blocks[i].block_index # blocks[j].block_index
                 /\ blocks[i].prev_hash # blocks[j].prev_hash

\* C3: the status of a trade changes only absent -> OPEN, OPEN -> COMPLETED or
\* OPEN -> CANCELLED; a complete or cancel request for a COMPLETED or CANCELLED
\* trade is rejected as not open and changes nothing.
C3_StatusTransitions ==
    [][\A i \in TradeIds :
        /\ \/ StatusOf(trades', i) = StatusOf(trades, i)
           \/ <<StatusOf(trades, i), StatusOf(trades', i)>> \in
                {<<"absent", "OPEN">>, <<"OPEN", "COMPLETED">>, <<"OPEN", "CANCELLED">>}
        /\ (/\ Handles
            /\ req.op \in {"complete", "cancel"}
            /\ req.trade_id = i
            /\ StatusOf(trades, i) \in {"COMPLETED", "CANCELLED"})
           => /\ result' = "Trade is not open"
              /\ UNCHANGED <<blocks, trades>>]_vars

C3_Witness ==
    /\ result = "Trade is not open"
    /\ \E i \in DOMAIN trades : trades[i].status = "COMPLETED"
    /\ \E i \in DOMAIN trades : trades[i].status = "CANCELLED"

\* C4: a COMPLETE block is appended only by a complete request for a trade that
\* is OPEN and has a buyer recorded, with the recorded seller's and the recorded
\* buyer's signatures both verifying over the request's complete_hash; a request
\* for which one of the two signatures does not verify completes nothing.
C4_TwoPartyFinality ==
    [][/\ Appends("COMPLETE") =>
            /\ Handles
            /\ req.op = "complete"
            /\ Doc(NewRow).trade_id = req.trade_id
            /\ req.trade_id \in DOMAIN trades
            /\ trades[req.trade_id].status = "OPEN"
            /\ trades[req.trade_id].buyer_pubkey # None
            /\ verify_signature(trades[req.trade_id].seller_pubkey,
                                req.complete_hash, req.sig_seller)
            /\ verify_signature(trades[req.trade_id].buyer_pubkey[1],
                                req.complete_hash, req.sig_buyer)
       /\ \A i \in TradeIds :
            StatusOf(trades, i) # "COMPLETED" /\ StatusOf(trades', i) = "COMPLETED"
                => Appends("COMPLETE") /\ req.trade_id = i]_vars

C4_Witness ==
    \E b \in Rows : b.type = "COMPLETE" /\ trades[Doc(b).trade_id].status = "COMPLETED"

\* C5: a create request for a trade_id without a snapshot whose signature
\* verifies under its seller_pubkey over the trade_id succeeds and leaves an OPEN
\* snapshot; a create request for a trade_id that has a snapshot fails with the
\* duplicate-trade error whatever its signature, appends no block and leaves
\* the snapshots unchanged.
C5_CreateOnce ==
    [][Handles /\ req.op = "create" =>
        /\ (/\ req.trade_id \notin DOMAIN trades
            /\ verify_signature(req.seller_pubkey, req.trade_id, req.signature))
           => /\ result' = "ok"
              /\ req.trade_id \in DOMAIN trades'
              /\ trades'[req.trade_id].status = "OPEN"
        /\ req.trade_id \in DOMAIN trades
           => /\ result' = "Trade already exists"
              /\ UNCHANGED <<blocks, trades>>]_vars

C5_Witness ==
    /\ result = "Trade already exists"
    /\ \E i \in DOMAIN trades : trades[i].status = "OPEN"

\* C6 as stated: a CREATE block is appended only if the request's signature
\* verifies under the request's seller_pubkey over the trade_id; otherwise the
\* request fails with the invalid-signature error and creates neither a block
\* nor a snapshot.
C6_InvalidSignatureAlways ==
    [][/\ Appends("CREATE") =>
            /\ Handles
            /\ req.op = "create"
            /\ verify_signature(req.seller_pubkey, req.trade_id, req.signature)
       /\ (/\ Handles
           /\ req.op = "create"
           /\ ~verify_signature(req.seller_pubkey, req.trade_id, req.signature))
          => /\ result' = "Invalid seller signature"
             /\ UNCHANGED <<blocks, trades>>]_vars

\* C6 amended: a CREATE block is appended only if the request's signature
\* verifies under the request's seller_pubkey over the trade_id; otherwise the
\* request fails and creates neither a block nor a snapshot, with the
\* invalid-signature error when the trade_id has no snapshot and with the
\* duplicate-trade error when it has one.
C6_CreateNeedsSignature ==
    [][/\ Appends("CREATE") =>
            /\ Handles
            /\ req.op = "create"
            /\ verify_signature(req.seller_pubkey, req.trade_id, req.signature)
            /\ Doc(NewRow).trade_id = req.trade_id
            /\ Doc(NewRow).payload.seller_pubkey = req.seller_pubkey
       /\ (/\ Handles
           /\ req.op = "create"
           /\ ~verify_signature(req.seller_pubkey, req.trade_id, req.signature))
          => /\ result' = IF req.trade_id \in DOMAIN trades
                          THEN "Trade already exists"
                          ELSE "Invalid seller signature"
             /\ UNCHANGED <<blocks, trades>>]_vars

C6_Witness ==
    /\ result = "Invalid seller signature"
    /\ blocks = <<>>
    /\ trades = <<>>

\* C7: a CANCEL block is appended only by a cancel request whose signature
\* verifies under the seller_pubkey recorded in the trade's snapshot over the
\* request's cancel_hash; a request signed by another key cancels nothing.
C7_OnlySellerCancels ==
    [][/\ Appends("CANCEL") =>
            /\ Handles
            /\ req.op = "cancel"
            /\ Doc(NewRow).trade_id = req.trade_id
            /\ req.trade_id \in DOMAIN trades
            /\ verify_signature(trades[req.trade_id].seller_pubkey,
                                req.cancel_hash, req.signature)
       /\ \A i \in TradeIds :
            StatusOf(trades, i) # "CANCELLED" /\ StatusOf(trades', i) = "CANCELLED"
                => Appends("CANCEL") /\ req.trade_id = i]_vars

C7_Witness ==
    \E b \in Rows : b.type = "CANCEL" /\ trades[Doc(b).trade_id].status = "CANCELLED"

\* C8: a cancel request on an OPEN trade, signed by the seller over cancel_hash,
\* whose cancel_hash is not the digest of {trade_id, result: CANCELLED,
\* timestamp} rebuilt by the server is rejected with the hash-mismatch error;
\* no block is appended and the trade stays OPEN.
C8_CancelHashMismatch ==
    [][(/\ Handles
        /\ req.op = "cancel"
        /\ StatusOf(trades, req.trade_id) = "OPEN"
        /\ verify_signature(trades[req.trade_id].seller_pubkey,
                            req.cancel_hash, req.signature)
        /\ req.cancel_hash # hash_object(CancelBody(req.trade_id, now)))
       => /\ result' = "Hash mismatch"
          /\ blocks' = blocks
          /\ trades' = trades
          /\ trades'[req.trade_id].status = "OPEN"]_vars

C8_Witness ==
    /\ result = "Hash mismatch"
    /\ \E i \in DOMAIN trades : trades[i].status = "OPEN"

\* C9: a complete request on an OPEN trade with no buyer recorded fails with
\* the buyer-not-joined error whatever signatures it carries; no block is
\* appended and the trade stays OPEN.
C9_BuyerNotJoined ==
    [][(/\ Handles
        /\ req.op = "complete"
        /\ StatusOf(trades, req.trade_id) = "OPEN"
        /\ trades[req.trade_id].buyer_pubkey = None)
       => /\ result' = "Buyer pubkey not set"
          /\ blocks' = blocks
          /\ trades' = trades]_vars

C9_Witness ==
    /\ result = "Buyer pubkey not set"
    /\ \E i \in DOMAIN trades : trades[i].status = "OPEN" /\ trades[i].buyer_pubkey = None

\* the block the validation of the waiting request returns, if it returns one
Validated ==
    CASE req.op = "create" ->
            verify_create(req.trade_id, req.content_hash, req.seller_pubkey,
                          req.signature, req.description, req.price)
      [] req.op = "complete" ->
            verify_complete(req.trade_id, req.complete_hash, req.sig_seller, req.sig_buyer)
      [] req.op = "cancel" ->
            verify_cancel(req.trade_id, req.cancel_hash, req.signature, now)
      [] OTHER -> Raise("")

\* C10: a create, complete or cancel request that fails leaves the ledger and
\* every snapshot as they were; one that succeeds stores exactly one block, the
\* one validation returned, and projects that block into the snapshots.
C10_FailedRequestsWriteNothing ==
    [][Handles /\ req.op \in {"create", "complete", "cancel"} =>
        /\ result' # "ok" => blocks' = blocks /\ trades' = trades
        /\ Validated.err # "" => result' = Validated.err
        /\ result' = "ok" =>
            /\ Validated.err = ""
            /\ Appends(Validated.block[1].type)
            /\ Doc(NewRow).trade_id = req.trade_id
            /\ Doc(NewRow).payload = Validated.block[1].payload
            /\ Doc(NewRow).signatures = Validated.block[1].signatures
            /\ trades' = project_block(trades, Validated.block[1])]_vars

C10_Witness ==
    /\ result \notin {"ok", ""}
    /\ blocks # <<>>
    /\ ~Pending

\* the fields of the snapshots that come from the ledger
LedgerFields(table) ==
    [i \in DOMAIN table |-> [seller_pubkey |-> table[i].seller_pubkey,
                             content_hash |-> table[i].content_hash,
                             description |-> table[i].description,
                             price |-> table[i].price,
                             status |-> table[i].status]]

\* C11: after any sequence of validated create, complete and cancel requests
\* applied with apply_block, the snapshot table rebuild_state produces from
\* the stored blocks has the same seller_pubkey, content_hash, description,
\* price and status for every trade_id as the table the apply_block calls
\* have produced.
C11_RebuildEqualsIncremental ==
    \A table \in rebuild_state : LedgerFields(table) = LedgerFields(trades)

\* the blocks of the trade replayed through the projection of apply_block
RECURSIVE ReplayFrom(_, _, _, _)
ReplayFrom(table, events, trade_id, n) ==
    IF n > Len(events) THEN table
    ELSE ReplayFrom(IF events[n].trade_id = trade_id
                    THEN project_block(table, events[n]) ELSE table,
                    events, trade_id, n + 1)

\* C12: in every reachable state the snapshot of each trade is the projection
\* of that trade's ledger blocks replayed in chain order; the recorded buyer
\* is among what the replay gives back.
C12_SnapshotReproducible ==
    \A events \in get_all_blocks(blocks) : \A i \in DOMAIN trades :
        LET replayed == ReplayFrom(<<>>, events, i, 1)
        IN /\ i \in DOMAIN replayed
           /\ trades[i] = replayed[i]
           /\ trades[i].buyer_pubkey = replayed[i].buyer_pubkey

\* C13: for every stored block, compute_block_hash of the stored index,
\* prev_hash, payload and timestamp is the stored hash.
C13_StoredHashRecomputes ==
    \A b \in Rows :
        compute_block_hash([index |-> b.block_index,
                            prev_hash |-> b.prev_hash,
                            payload |-> Doc(b),
                            timestamp |-> b.timestamp]) = b.block_hash

\* what append_block is given of a block
EventOf(block) ==
    [type |-> block.type, trade_id |-> block.trade_id,
     payload |-> block.payload, signatures |-> block.signatures]

\* C14: get_all_blocks returns nothing on the empty chain, and each append
\* adds to what it returns one event at the end, carrying the type, trade_id,
\* payload and signatures passed to append_block: it returns the appended
\* events, one per block, in append order.
C14_ReplayRoundTrip ==
    /\ get_all_blocks(blocks) = {<<>>}
    /\ [][blocks' # blocks =>
            /\ Handles
            /\ Validated.err = ""
            /\ get_all_blocks(blocks') =
                {Append(events, EventOf(Validated.block[1])) :
                    events \in get_all_blocks(blocks)}]_vars

C14_Witness ==
    /\ Len(blocks) = 4
    /\ blocks[3].type = "COMPLETE"
    /\ blocks[4].type = "CANCEL"
    /\ \E events \in get_all_blocks(blocks) :
        /\ Len(events) = 4
        /\ events[1].type = "CREATE" /\ events[1].payload.description = Some("book")
        /\ events[3].signatures.buyer = Sign("k2", "c1")
        /\ events[4].payload.result = "CANCELLED"

\* C15: a step either leaves the stored blocks as they are or is an append,
\* which adds one block of index last.index + 1 (0 on the empty chain) after
\* the unchanged earlier blocks; rebuild_state, join_trade and
\* update_chat_pubkey are among the steps.
C15_AppendOnly ==
    [][\/ blocks' = blocks
       \/ /\ Handles
          /\ req.op \in {"create", "complete", "cancel"}
          /\ Len(blocks') = Len(blocks) + 1
          /\ SubSeq(blocks', 1, Len(blocks)) = blocks
          /\ NewRow.block_index =
                IF blocks = <<>> THEN 0 ELSE blocks[Len(blocks)].block_index + 1]_vars

\* three blocks are stored and the snapshot of "a1" has been rebuilt (its
\* description is lost) and joined again
C15_Witness ==
    /\ Len(blocks) = 3
    /\ blocks[3].block_index = 2
    /\ "a1" \in DOMAIN trades
    /\ trades["a1"].description = None
    /\ trades["a1"].buyer_pubkey # None
    /\ trades["a1"].seller_chat_pubkey # None

\* the step in which the listener of instance i takes the next bus item
Takes(i) == tasks[i].pc = "idle" /\ inbox[i] # <<>> /\ inbox'[i] = Tail(inbox[i])

\* the step in which coroutine t comes back from one send_json of line 258
Sends(t) ==
    /\ tasks[t].pc = "send"
    /\ tasks'[t].pc # "send" \/ tasks'[t].todo = Tail(tasks[t].todo)

\* the step in which coroutine t comes back from the publish of line 238
Publishes(t) == tasks[t].pc = "publish" /\ tasks'[t].pc = "idle" /\ inbox' # inbox

RoomOf(i, trade_id) ==
    IF trade_id \in DOMAIN rooms[i] THEN rooms[i][trade_id] ELSE <<>>

\* C16: a message is published with the origin_id of the instance that emits
\* it; the broker handler of that instance drops it without sending it to
\* any local client, and the broker handler of every other instance sends
\* it, origin_id removed, to each member of its local room of the trade.
C16_EchoSuppression ==
    [][/\ \A t \in Callers : Publishes(t) =>
            \A i \in Instances :
                LET item == inbox'[i][Len(inbox'[i])]
                IN /\ inbox'[i] = Append(inbox[i], item)
                   /\ TradeOfChannel(item.channel) = tasks[t].trade_id
                   /\ listen_loads(item.data) =
                        publish_message(tasks[t].message, broker_id(tasks[t].inst))
       /\ \A i \in Instances : Takes(i) =>
            LET message == listen_loads(Head(inbox[i]).data)
                room == RoomOf(i, TradeOfChannel(Head(inbox[i]).channel))
            IN IF message.origin_id = broker_id(i)
               THEN tasks'[i] = IdleTask /\ received' = received /\ rooms' = rooms
               ELSE room # <<>> =>
                    /\ tasks'[i].pc = "send"
                    /\ tasks'[i].todo = RoomConns(room)
                    /\ tasks'[i].message =
                        [k \in DOMAIN message \ {"origin_id"} |-> message[k]]
       /\ \A i \in Instances : Sends(i) =>
            LET conn == Head(tasks[i].todo)
            IN /\ alive[conn] =>
                    received'[conn] = received[conn] (+) SetToBag({tasks[i].message})
               /\ Tail(tasks[i].todo) # <<>> =>
                    /\ tasks'[i].pc = "send"
                    /\ tasks'[i].message = tasks[i].message]_vars

\* the JOIN of k1 emitted by X has reached c3 through the handler of Y, and
\* c1 has the one copy of the local broadcast of X
C16_Witness ==
    LET m == join_message(ChatTrade, "k1", ChatKeyOf("k1"), 0)
    IN /\ \A i \in Instances : inbox[i] = <<>> /\ tasks[i].pc = "idle"
       /\ CopiesIn(m, received["c3"]) = 1
       /\ CopiesIn(m, received["c1"]) = 1

\* C17: whatever the interleaving of the join_room calls, a room holds at
\* most one entry for a connection, and each entry carries the identity and
\* the chat key given by the last join_room call made for its connection.
C17_OneEntryPerConnection ==
    \A i \in Instances : \A trade_id \in DOMAIN rooms[i] :
        LET room == rooms[i][trade_id]
        IN \A n \in DOMAIN room :
            /\ \A m \in DOMAIN room : room[m].conn = room[n].conn => m = n
            /\ joined[room[n].conn] = Some(room[n])

\* c1 has joined as k1 and, while that call is still suspended, again as k2
C17_Witness ==
    /\ \E t \in Callers :
        /\ tasks[t].op = "join_room" /\ tasks[t].pc \in {"add_participant", "send", "publish"}
        /\ tasks[t].conn = "c1" /\ tasks[t].identity_pubkey = "k1"
    /\ calls = 2
    /\ rooms["X"][ChatTrade] = <<Entry("c1", "k2", ChatKeyOf("k2"))>>

\* C18: a broker call that raises inside join_room (add_participant, the
\* publish of the JOIN event), leave_room (remove_participant) or relay (the
\* publish of the CHAT event) is only logged: no service call ends by raising
\* the broker's exception into its caller.
C18_BrokerFailureOnlyLogged ==
    \A t \in Callers : tasks[t].pc = "raised" => tasks[t].exc # "BrokerError"

\* the CHAT events the clients of the model can ask relay to emit
ChatEvents ==
    {chat_message(ChatTrade, ChatKeyOf("k1"), ciphertext, now) : ciphertext \in Ciphertexts}

\* C19: a relay whose insert_message raised goes on exactly like one whose
\* insert_message returned: whether or not a row was stored, the call starts
\* the broadcast of the CHAT event over every member of the local room, each
\* send_json hands the event to its connection, and once the members are
\* served the event is published with the instance's origin_id.
C19_PersistenceFailureSwallowed ==
    [][\A t \in Callers :
        /\ (tasks[t].pc = "idle" /\ calls' = calls + 1 /\ tasks'[t].op = "relay") =>
            LET room == RoomOf(tasks'[t].inst, ChatTrade)
            IN /\ chats' = chats \/ (Len(chats') = Len(chats) + 1
                                      /\ SubSeq(chats', 1, Len(chats)) = chats)
               /\ tasks'[t].message \in ChatEvents
               /\ tasks'[t].pc = IF room = <<>> THEN "publish" ELSE "send"
               /\ room # <<>> => tasks'[t].todo = RoomConns(room)
        /\ (Sends(t) /\ tasks[t].op = "relay") =>
            LET conn == Head(tasks[t].todo)
            IN /\ alive[conn] =>
                    received'[conn] = received[conn] (+) SetToBag({tasks[t].message})
               /\ Tail(tasks[t].todo) # <<>> => tasks'[t].pc = "send"
               /\ (Tail(tasks[t].todo) = <<>> /\ alive[conn] /\ tasks[t].dead = <<>>) =>
                    tasks'[t].pc = "publish"
               /\ tasks'[t].pc \in {"send", "publish"} =>
                    tasks'[t].message = tasks[t].message
        /\ (Publishes(t) /\ tasks[t].op = "relay") =>
            \A i \in Instances :
                /\ Len(inbox'[i]) = Len(inbox[i]) + 1
                /\ listen_loads(inbox'[i][Len(inbox'[i])].data) =
                        publish_message(tasks[t].message, broker_id(tasks[t].inst))]_vars

\* nothing was stored, yet c1 holds the CHAT event and the bus carries it to Y
C19_Witness ==
    /\ chats = <<>>
    /\ \E m \in ChatEvents :
        /\ CopiesIn(m, received["c1"]) = 1
        /\ inbox["Y"] # <<>>
        /\ inbox["Y"][Len(inbox["Y"])].data = JsonDumpsMessage(publish_message(m, broker_id("X")))

\* the entries of a connection in a room, and the room without them
EntriesOf(room, conn) == SelectSeq(room, LAMBDA e : e.conn = conn)

Without(room, conn) == SelectSeq(room, LAMBDA e : e.conn # conn)

\* the step in which coroutine t comes back from the remove_participant of
\* a leave_room awaited at line 263
RemovesDead(t) ==
    /\ tasks[t].pc = "remove_participant" /\ tasks[t].op # "leave_room"
    /\ tasks'[t] # tasks[t]

\* C20: in a local broadcast a send_json that raises leaves the loop running:
\* the other members are still sent the same message and the room is not
\* touched while the loop runs.  When the loop is over, leave_room is run
\* for the connections whose send failed: the entry is taken out, then
\* remove_participant is awaited for it, then a room left empty is deleted.
C20_DeadConnectionsReaped ==
    [][\A t \in DOMAIN tasks :
        /\ Sends(t) =>
            LET conn == Head(tasks[t].todo)
                i == tasks[t].inst
                room == RoomOf(i, tasks[t].trade_id)
                dead == IF alive[conn] THEN tasks[t].dead ELSE Append(tasks[t].dead, conn)
            IN /\ received'[conn] = IF alive[conn]
                                    THEN received[conn] (+) SetToBag({tasks[t].message})
                                    ELSE received[conn]
               /\ Tail(tasks[t].todo) # <<>> =>
                    /\ tasks'[t].pc = "send"
                    /\ tasks'[t].todo = Tail(tasks[t].todo)
                    /\ tasks'[t].message = tasks[t].message
                    /\ tasks'[t].dead = dead
                    /\ rooms' = rooms
               /\ (Tail(tasks[t].todo) = <<>> /\ dead = <<>>) => rooms' = rooms
               /\ (Tail(tasks[t].todo) = <<>> /\ dead # <<>>
                        /\ EntriesOf(room, Head(dead)) # <<>>) =>
                    /\ tasks'[t].pc = "remove_participant"
                    /\ tasks'[t].dead = dead
                    /\ tasks'[t].removed = EntriesOf(room, Head(dead))
                    /\ rooms'[i][tasks[t].trade_id] = Without(room, Head(dead))
        /\ (RemovesDead(t) /\ Len(tasks[t].removed) = 1) =>
            LET i == tasks[t].inst
                trade_id == tasks[t].trade_id
                room == RoomOf(i, trade_id)
                rest == Tail(tasks[t].dead)
            IN /\ trade_id \in DOMAIN rooms[i] =>
                    IF room = <<>> THEN trade_id \notin DOMAIN rooms'[i]
                    ELSE IF rest = <<>> THEN rooms' = rooms
                    ELSE rooms'[i][trade_id] = Without(room, Head(rest))
               /\ (trade_id \in DOMAIN rooms[i] /\ room # <<>> /\ rest # <<>>
                        /\ EntriesOf(room, Head(rest)) # <<>>) =>
                    /\ tasks'[t].pc = "remove_participant"
                    /\ tasks'[t].removed = EntriesOf(room, Head(rest))]_vars

\* the JOIN of c1 failed to reach the broken c2, reached c1, and c2 then
\* left the room and the broker's participant set
C20_Witness ==
    /\ ~alive["c2"]
    /\ joined["c1"] = Some(Entry("c1", "k1", ChatKeyOf("k1")))
    /\ joined["c2"] # None
    /\ calls = 2
    /\ CopiesIn(join_message(ChatTrade, "k1", ChatKeyOf("k1"), 0), received["c1"]) = 1
    /\ CopiesIn(join_message(ChatTrade, "k1", ChatKeyOf("k1"), 0), received["c2"]) = 0
    /\ rooms["X"][ChatTrade] = <<Entry("c1", "k1", ChatKeyOf("k1"))>>
    /\ participants = {[trade_id |-> ChatTrade, identity_pubkey |-> "k1",
                        chat_pubkey |-> ChatKeyOf("k1")]}

\* a join_room or a leave_room (one awaited at line 263 included) is running
InJoinOrLeave(t) ==
    /\ tasks[t].pc \notin {"idle", "raised"}
    /\ tasks[t].op \in {"join_room", "leave_room"} \/ tasks[t].pc = "remove_participant"

\* the step in which coroutine t comes back from its last remove_participant
\* and gets to the end of leave_room without starting another one
LeaveCompletes(t) ==
    /\ tasks[t].pc = "remove_participant" /\ Len(tasks[t].removed) = 1
    /\ tasks'[t] # tasks[t]
    /\ tasks'[t].pc \notin {"remove_participant", "raised"}

\* C21: while no join_room and no leave_room is running, _rooms has a key for
\* a trade only if the list under it is not empty: the first join creates
\* the key together with its first entry, and the leave_room that finds the
\* list empty at its end deletes the key instead of keeping an empty list.
C21_NoEmptyRoomKept ==
    /\ [](((\A t \in DOMAIN tasks : ~InJoinOrLeave(t)) =>
            \A i \in Instances : \A trade_id \in DOMAIN rooms[i] :
                rooms[i][trade_id] # <<>>))
    /\ [][\A t \in DOMAIN tasks :
            /\ (tasks[t].pc = "idle" /\ tasks'[t].op = "join_room") =>
                    /\ tasks'[t].trade_id \in DOMAIN rooms'[tasks'[t].inst]
                    /\ rooms'[tasks'[t].inst][tasks'[t].trade_id] # <<>>
            /\ LeaveCompletes(t) =>
                    \A trade_id \in DOMAIN rooms'[tasks[t].inst] :
                        rooms'[tasks[t].inst][trade_id] # <<>>]_vars

\* c1 joined, then left: the key its join created is gone again
C21_Witness ==
    /\ joined["c1"] # None /\ calls = 2
    /\ \A t \in DOMAIN tasks : tasks[t].pc = "idle"
    /\ received["c1"] # EmptyBag
    /\ rooms["X"] = NoRooms
    /\ participants = {}

\* the JOIN event that join_room emits for the entry it appended
JoinEventOf(T) == join_message(T.trade_id, T.identity_pubkey, T.chat_pubkey, now)

\* C26: the first join_room of a connection into a room awaits add_participant
\* once and, when that call is over, emits one JOIN event for its entry (the
\* local broadcast is started, the publish follows it); a join_room of a
\* connection already in the room only overwrites its entry: no broker call,
\* no JOIN event, the call returns at once.
C26_FirstJoinAnnounces ==
    [][\A t \in Callers :
        /\ \A conn \in Conns :
            (tasks[t].pc = "idle" /\ tasks'[t].op = "join_room" /\ tasks'[t].conn = conn
                /\ EntriesOf(RoomOf(InstanceOf(conn), ChatTrade), conn) = <<>>) =>
                    /\ tasks'[t].pc = "add_participant"
                    /\ participants' = participants
        /\ (tasks[t].pc = "add_participant" /\ tasks'[t] # tasks[t]) =>
                /\ tasks'[t].pc \in {"send", "publish"}
                /\ tasks'[t].message = JoinEventOf(tasks[t])
        /\ \A conn \in Conns :
            LET room == RoomOf(InstanceOf(conn), ChatTrade)
            IN (tasks[t].pc = "idle" /\ calls' = calls + 1
                    /\ joined'[conn] # joined[conn] /\ EntriesOf(room, conn) # <<>>) =>
                    /\ tasks' = tasks
                    /\ participants' = participants /\ inbox' = inbox
                    /\ received' = received
                    /\ rooms'[InstanceOf(conn)][ChatTrade] =
                            [n \in DOMAIN room |->
                                IF room[n].conn = conn THEN joined'[conn][1] ELSE room[n]]]_vars

\* the broker record of a room entry
ParticipantOf(trade_id, entry) ==
    [trade_id |-> trade_id, identity_pubkey |-> entry.identity_pubkey,
     chat_pubkey |-> entry.chat_pubkey]

\* leave_room(ChatTrade, conn) as a client handler of its instance can call
\* it in this state
LeaveCall(conn) ==
    leave_room(rooms[InstanceOf(conn)],
               [Call("leave_room", InstanceOf(conn), ChatTrade) EXCEPT
                    !.conn = conn, !.dead = <<conn>>],
               FALSE)

\* C27: a leave_room that removes entries awaits remove_participant once for
\* each of them, with the identity and chat key the entry held; a leave_room
\* for a room that does not exist or for a connection that is not a member
\* returns without a broker call and leaves the registry as it was.
C27_LeaveNotifiesPerEntry ==
    /\ [](\A conn \in Conns :
            (calls < MaxCalls /\ joined[conn] # None
                /\ EntriesOf(RoomOf(InstanceOf(conn), ChatTrade), conn) = <<>>) =>
                    /\ LeaveCall(conn).rooms = rooms[InstanceOf(conn)]
                    /\ LeaveCall(conn).task.pc = "idle")
    /\ [][\A t \in DOMAIN tasks :
            /\ (tasks[t].pc # "remove_participant"
                    /\ tasks'[t].pc = "remove_participant") =>
                    LET room == RoomOf(tasks'[t].inst, tasks'[t].trade_id)
                        conn == CHOOSE c \in Conns :
                                    \A n \in DOMAIN tasks'[t].removed :
                                        tasks'[t].removed[n].conn = c
                    IN /\ tasks'[t].removed = EntriesOf(room, conn)
                       /\ tasks'[t].removed # <<>>
                       /\ rooms'[tasks'[t].inst][tasks'[t].trade_id] = Without(room, conn)
            /\ (tasks[t].pc = "remove_participant" /\ tasks'[t] # tasks[t]) =>
                    /\ participants' \in
                            {participants,
                             participants \ {ParticipantOf(tasks[t].trade_id,
                                                           Head(tasks[t].removed))}}
                    /\ \/ tasks'[t].pc = "remove_participant"
                            /\ tasks'[t].removed = Tail(tasks[t].removed)
                       \/ tasks'[t].pc # "remove_participant"
                            /\ Tail(tasks[t].removed) = <<>>]_vars

\* the records of the entries of the rooms of all instances for a trade
Registered(trade_id) ==
    UNION {{ParticipantOf(trade_id, RoomOf(i, trade_id)[n]) :
                n \in DOMAIN RoomOf(i, trade_id)} : i \in Instances}

\* C28: over a broker whose calls all succeed, whenever no service call is
\* running, the participant set of the broker for a trade holds exactly the
\* records (identity_pubkey, chat_pubkey) of the entries that the rooms of the
\* instances hold for that trade.
C28_ParticipantsMatchRooms ==
    (\A t \in DOMAIN tasks : tasks[t].pc = "idle") =>
        {p \in participants : p.trade_id = ChatTrade} = Registered(ChatTrade)

\* the (identity_pubkey, chat_pubkey) pairs of a list of dicts or of entries
PairsOf(list) ==
    [n \in DOMAIN list |-> <<list[n].identity_pubkey, list[n].chat_pubkey>>]

\* C25: the list get_participants hands to get_room_info holds each record
\* of the broker's set for the trade once; a get_room_info that got a
\* non-empty list returns its records in its order, each marked connected; one
\* that got the empty list returns the entries of the local room at the time
\* it resumes; over the no-op broker the list is always empty, so the local
\* entries are returned.
C25_RoomInfoPrefersBroker ==
    [][(info' # info) =>
        LET found == info'.participants
            list == info'.result
            set == {p \in participants : p.trade_id = ChatTrade}
        IN /\ info'.pc = "get_participants" =>
                /\ Len(found) = Cardinality(set)
                /\ {<<p.identity_pubkey, p.chat_pubkey>> : p \in set} =
                        {PairsOf(found)[n] : n \in DOMAIN found}
           /\ info'.pc = "returned" =>
                /\ \A n \in DOMAIN list : list[n].connected
                /\ found # <<>> => PairsOf(list) = PairsOf(found)
                /\ found = <<>> => PairsOf(list) = PairsOf(RoomOf(info'.inst, ChatTrade))
                /\ broker = "noop" =>
                        PairsOf(list) = PairsOf(RoomOf(info'.inst, ChatTrade))]_vars

\* Y is asked while its room is empty and the broker's set holds a record
C25_Witness ==
    /\ info.pc = "returned" /\ info.inst = "Y" /\ broker = "redis"
    /\ RoomOf("Y", ChatTrade) = <<>>
    /\ info.result # <<>>
    /\ PairsOf(info.result) = PairsOf(info.participants)

\* a first frame that is an auth message of some identity
ValidAuth(data) ==
    \E k \in Identities : data = auth_frame("auth", k, ChatKeyOf(k))

\* the connection has an entry in the room of its instance
Member(conn) == EntriesOf(RoomOf(InstanceOf(conn), ChatTrade), conn) # <<>>

\* C22: a connection has an entry in a room, or a join_room call, only if
\* the trade was stored when its handler looked it up and its first frame was
\* an auth message with identity_pubkey and chat_pubkey, and the entry holds
\* the keys of that frame; a handler that found no trade or got another first
\* frame has closed with code 1008 and called join_room never; and a frame
\* of the message loop is taken, a relay or broadcast_join started or a PONG
\* sent only by a handler whose join_room has returned.
C22_JoinNeedsTradeAndAuth ==
    /\ [](\A conn \in Sockets :
            LET h == handler[conn]
            IN /\ (Member(conn) \/ h.joins > 0) =>
                    /\ h.found /\ ValidAuth(h.first) /\ h.joins = 1
                    /\ h.first = auth_frame("auth", h.identity_pubkey, h.chat_pubkey)
                    /\ \A n \in DOMAIN RoomOf(InstanceOf(conn), ChatTrade) :
                        LET e == RoomOf(InstanceOf(conn), ChatTrade)[n]
                        IN e.conn = conn =>
                            /\ e.identity_pubkey = h.identity_pubkey
                            /\ e.chat_pubkey = h.chat_pubkey
               /\ (h.pc # "none" /\ (~h.found \/ (h.first # "" /\ ~ValidAuth(h.first)))) =>
                    /\ h.pc = "done" /\ h.code = 1008 /\ h.joins = 0
                    /\ ~Member(conn)
                    /\ tasks[conn] = IdleTask)
    /\ [][\A conn \in Sockets :
            /\ (handler[conn].pc = "none" /\ handler'[conn].pc # "none") =>
                    (handler'[conn].pc = "auth") = (ChatTrade \in DOMAIN trades)
            /\ (calls' # calls \/ handler'[conn].sent # handler[conn].sent
                    \/ (tasks'[conn].op \in {"relay", "broadcast_join"}
                            /\ tasks[conn].op \notin {"relay", "broadcast_join"})) =>
                    /\ handler[conn].joins = 1
                    /\ handler[conn].pc \in {"join", "receive"}
                    /\ tasks[conn].pc = "idle"
                    /\ handler[conn].pc = "join" =>
                            calls' = calls /\ tasks'[conn] = tasks[conn]]_vars

\* the handler has joined its connection and has taken a frame of the loop
C22_Witness ==
    /\ Member("c1") /\ handler["c1"].pc = "receive" /\ calls >= 1
    /\ handler["c1"].first = auth_frame("auth", "k1", "ck-k1")

\* C23: a handler waiting for the first frame does not wait for ever; the
\* close with reason "Authentication timeout" is made only by a handler that
\* waits for its first frame and has received none, with code 1008, and that
\* handler has called join_room never and its connection is in no room; a
\* handler that has called join_room is never closed with that reason.
C23_AuthTimeout ==
    /\ \A conn \in Sockets :
            (handler[conn].pc = "auth") ~> (handler[conn].pc # "auth")
    /\ [](\A conn \in Sockets :
            LET h == handler[conn]
            IN /\ h.reason = "Authentication timeout" =>
                    /\ h.pc = "done" /\ h.code = 1008 /\ h.joins = 0 /\ h.first = ""
                    /\ ~Member(conn) /\ tasks[conn] = IdleTask /\ joined[conn] = None
               /\ h.joins > 0 => h.reason # "Authentication timeout")
    /\ [][\A conn \in Sockets :
            (handler'[conn].reason = "Authentication timeout"
                /\ handler[conn].reason # "Authentication timeout") =>
                    /\ handler[conn].pc = "auth" /\ handler[conn].first = ""
                    /\ rooms' = rooms /\ tasks' = tasks]_vars

\* the handler was closed by the timeout while the trade exists
C23_Witness ==
    /\ handler["c1"].reason = "Authentication timeout" /\ handler["c1"].found
    /\ handler["c1"].pc = "done"

\* the handler of a joined connection has met the end of its connection: the
\* peer is gone, or a call raised into the handlers of lines 139-144
Ending(conn) ==
    /\ handler[conn].joins = 1
    /\ \/ ~alive[conn]
       \/ handler[conn].pc = "join" /\ tasks[conn].pc = "raised"
       \/ handler[conn].pc = "call" /\ tasks[conn].pc = "raised"
            /\ handler[conn].clause = "except"

\* C24: once the peer of a joined connection is gone or a call of its
\* handler has raised out of the message loop, the handler comes to its end
\* having called leave_room once, with the connection in no room; no handler
\* calls leave_room twice; the step that takes the handler into its except
\* clause starts leave_room, which removes the entry before its first await,
\* and when leave_room is over the connection has no entry.
C24_LeaveOnceOnDisconnect ==
    /\ \A conn \in Sockets :
            Ending(conn) ~>
                (handler[conn].pc = "done" /\ handler[conn].leaves = 1 /\ ~Member(conn))
    /\ [](\A conn \in Sockets :
            /\ handler[conn].leaves <= 1
            /\ (handler[conn].pc = "done" /\ handler[conn].joins = 1) =>
                    handler[conn].leaves = 1 /\ ~Member(conn))
    /\ [][\A conn \in Sockets :
            /\ (handler[conn].pc # "leave" /\ handler'[conn].pc = "leave") =>
                    /\ handler'[conn].leaves = handler[conn].leaves + 1
                    /\ tasks'[conn].op \in {"leave_room", ""}
                    /\ ~Member(conn)'
            /\ (handler[conn].joins = 1 /\ handler[conn].pc # "done"
                    /\ handler'[conn].pc = "done") =>
                    /\ handler[conn].pc = "leave"
                    /\ tasks[conn].pc \in {"idle", "raised"}
                    /\ ~Member(conn)']_vars

\* the peer went away while its connection was in the room, and the
\* handler has ended after its leave_room
C24_Witness ==
    /\ handler["c1"].pc = "done" /\ handler["c1"].joins = 1
    /\ handler["c1"].cause = "WebSocketDisconnect" /\ handler["c1"].leaves = 1
    /\ participants = {} /\ rooms["X"] = NoRooms
    /\ received["c1"] # EmptyBag

\* the frames of LoopFrames that json.loads rejects
RawFrames == {data \in LoopFrames : ~IsJson(data)}

\* C30: in the message loop a frame that is not JSON starts a relay of its
\* text as ciphertext under the connection's chat key; a frame that starts
\* no service call (unknown type, a JSON value that is no object, a PING
\* whose PONG cannot be sent) leaves the handler in the loop; and when the
\* service call of a frame raises, the handler goes back to receive_text
\* with the rooms as they are.
C30_LoopSurvivesErrors ==
    [][\A conn \in Sockets :
        /\ (handler[conn].pc = "receive" /\ calls' = calls + 1) =>
                /\ handler'[conn].pc \in {"receive", "call"}
                /\ (handler'[conn].pc = "call" /\ handler'[conn].clause = "except") =>
                        \/ tasks'[conn].pc = "idle" /\ ~Member(conn)
                        \/ /\ tasks'[conn].op = "relay"
                           /\ \E data \in RawFrames :
                                tasks'[conn].message =
                                    chat_message(ChatTrade, handler[conn].chat_pubkey,
                                                 data, now)
        /\ (handler[conn].pc = "call" /\ tasks[conn].pc = "raised"
                /\ handler'[conn] # handler[conn]) =>
                /\ handler'[conn].pc = "receive"
                /\ rooms' = rooms]_vars

\* C29: the listener passes the payload of every bus message the service
\* published to the handler, with the trade id of the channel: on an
\* instance other than the origin that has a room of the trade, the local
\* delivery of the payload without origin_id starts; a bus message whose
\* data is no JSON object is taken without any local delivery; and no
\* listener ever stops.
C29_ListenerKeepsRunning ==
    /\ [][\A i \in Instances :
            Takes(i) =>
                LET item == Head(inbox[i])
                    trade_id == TradeOfChannel(item.channel)
                IN IF item.data \in BusTexts
                   THEN LET message == listen_loads(item.data)
                        IN (message.origin_id # broker_id(i)
                                /\ trade_id \in DOMAIN rooms[i]) =>
                                /\ tasks'[i].pc = "send"
                                /\ tasks'[i].trade_id = trade_id
                                /\ tasks'[i].message =
                                        [k \in DOMAIN message \ {"origin_id"} |-> message[k]]
                   ELSE /\ tasks'[i].pc = "idle"
                        /\ received' = received]_vars
    /\ [](\A i \in Instances : tasks[i].pc # "raised")

\* the hashes a caller can put into the 'hash' field of block_data
SuppliedHashes == {"c1", "xyz", GenesisHash}

\* the block_data verify_complete or verify_cancel returns for the request
\* being handled
RequestBlock ==
    IF req.op = "complete"
    THEN CompleteBlock(req.trade_id, req.complete_hash, req.sig_seller, req.sig_buyer)
    ELSE CancelBlock(req.trade_id, CancelBody(req.trade_id, now), req.cancel_hash,
                     req.signature)

\* C31: when a complete or cancel request appends a block, the row stored is
\* the row append_block stores for the same block_data with any other value
\* in its 'hash' field (same latest block, same clock readings); the stored
\* hash is the digest of index, prev_hash, payload and a clock reading and
\* not the hash of the request; and neither a column of the row nor a key
\* of its payload_json holds the 'hash' field.
C31_HashRecomputed ==
    [][(Handles /\ req.op \in {"complete", "cancel"} /\ Len(blocks') = Len(blocks) + 1) =>
        LET row == blocks'[Len(blocks')]
            full_payload == json_loads(row.payload_json)
        IN /\ \E last_block \in get_latest_block : \E t1 \in Times : \E t2 \in Times :
                \A h \in SuppliedHashes :
                    LET a == append_block([RequestBlock EXCEPT !.hash = h],
                                          last_block, t1, t2)
                    IN a.err = "" /\ insert_block(blocks, a.block[1]) = blocks'
           /\ \E t1 \in Times :
                row.block_hash =
                    compute_block_hash([index |-> row.block_index,
                                        prev_hash |-> row.prev_hash,
                                        payload |-> full_payload, timestamp |-> t1])
           /\ row.block_hash # RequestBlock.hash
           /\ DOMAIN row = {"block_index", "prev_hash", "block_hash", "timestamp",
                            "type", "payload_json"}
           /\ DOMAIN full_payload = {"type", "trade_id", "payload", "signatures"}
           /\ "hash" \notin DOMAIN full_payload.payload]_vars

\* a COMPLETE block and a CANCEL block are stored, of requests that carried
\* the hashes "c1" and the digest of the cancel body
C31_Witness ==
    /\ \E n \in DOMAIN blocks :
            blocks[n].type = "COMPLETE" /\ blocks[n].block_hash \notin SuppliedHashes
    /\ \E n \in DOMAIN blocks : \E i \in TradeIds :
            /\ blocks[n].type = "CANCEL"
            /\ blocks[n].block_hash \notin CancelHashInputs(i)

\* the block_data the handlers can pass to apply_block for the requests of
\* this model
RequestBlocks ==
    {CreateBlock(r.trade_id, r.content_hash, r.seller_pubkey, r.signature,
                 r.description, r.price) : r \in CreateRequests}
        \cup {CompleteBlock(r.trade_id, r.complete_hash, r.sig_seller, r.sig_buyer) :
                    r \in CompleteRequests}
        \cup {CancelBlock(r.trade_id, CancelBody(r.trade_id, t), r.cancel_hash,
                          r.signature) : r \in CancelRequests, t \in Times}

\* the trade_id read back from each payload_json the ledger can hold,
\* computed once
LoadedPayloads ==
    {LET text == json_dumps([type |-> b.type, trade_id |-> b.trade_id,
                             payload |-> b.payload, signatures |-> b.signatures])
     IN <<text, json_loads(text).trade_id>> : b \in RequestBlocks}

TradeOfRow(row) == (CHOOSE p \in LoadedPayloads : p[1] = row.payload_json)[2]

\* the positions in the ledger of the blocks of a trade with a type in `types`
BlocksOf(trade_id, types) ==
    {n \in DOMAIN blocks :
        blocks[n].type \in types /\ TradeOfRow(blocks[n]) = trade_id}

\* C32: with requests handled one at a time the ledger holds, for every
\* trade_id, at most one CREATE block and at most one COMPLETE or CANCEL
\* block, and that block stands after the CREATE block of the trade, in
\* the table and by block_index.
C32_OneCreateOneEnd ==
    \A trade_id \in TradeIds :
        LET creates == BlocksOf(trade_id, {"CREATE"})
            ends == BlocksOf(trade_id, {"COMPLETE", "CANCEL"})
        IN /\ Cardinality(creates) <= 1
           /\ Cardinality(ends) <= 1
           /\ \A e \in ends : \E c \in creates :
                    c < e /\ blocks[c].block_index < blocks[e].block_index

\* both trades were created and ended, one by COMPLETE and one by CANCEL,
\* and further requests for them were handled after that
C32_Witness ==
    /\ Len(blocks) = 4
    /\ \E i \in TradeIds : BlocksOf(i, {"COMPLETE"}) # {}
    /\ \E i \in TradeIds : BlocksOf(i, {"CANCEL"}) # {}
    /\ \A i \in TradeIds : trades[i].status # "OPEN"
    /\ result \in {"Trade is not open", "Trade already exists"}

\* no leave_room call other than t is running on the instance of t
OnlyLeave(t) ==
    \A u \in DOMAIN tasks \ {t} :
        tasks'[u].inst = tasks[t].inst => tasks'[u].pc # "remove_participant"

\* C33: a leave_room call that comes back from its last remove_participant
\* does not raise, whatever other leave_room calls overlapped with it; and
\* when it is the last leave_room running on its instance and its room has
\* no member left, the room entry is deleted.
C33_OverlappingLeavesComplete ==
    [][\A t \in Callers :
        (tasks[t].op = "leave_room" /\ tasks[t].pc = "remove_participant"
            /\ tasks'[t] # tasks[t]) =>
            /\ tasks'[t].pc # "raised"
            /\ (OnlyLeave(t) /\ RoomOf(tasks[t].inst, tasks[t].trade_id) = <<>>) =>
                    tasks[t].trade_id \notin DOMAIN rooms'[tasks[t].inst]]_vars

\* how many times message m stands in the sequence log
Count(log, m) == Cardinality({n \in DOMAIN log : log[n] = m})

\* C34: a connection is sent an event at most as many times as instances
\* have emitted it, the local broadcast of the emitting instance and the
\* deliveries of the broker handlers counted together: an event emitted
\* once reaches each connection at most once.
C34_AtMostOnce ==
    \A c \in Conns : \A n \in DOMAIN hist.order[c] :
        Count(hist.order[c], hist.order[c][n]) <= CopiesIn(hist.order[c][n], hist.emitted)

\* a CHAT event emitted once on X has gone through the local broadcast and
\* the bus: each of the three members has it once
C34_Witness ==
    /\ \A t \in DOMAIN tasks : tasks[t].pc = "idle"
    /\ \A i \in Instances : inbox[i] = <<>>
    /\ \E m \in BagToSet(hist.emitted) :
        /\ m.type = "CHAT"
        /\ CopiesIn(m, hist.emitted) = 1
        /\ CopiesIn(m, hist.published) = 1
        /\ \A c \in Conns : Count(hist.order[c], m) = 1

\* the items waiting in the inbox of instance i that carry message m
Waiting(i, m) ==
    Cardinality({n \in DOMAIN inbox[i] :
        LET message == listen_loads(inbox[i][n].data)
        IN [k \in DOMAIN message \ {"origin_id"} |-> message[k]] = m})

C36_NoOriginIdDelivered ==
    /\ \A c \in Conns : \A m \in BagToSet(received[c]) : "origin_id" \notin DOMAIN m
    /\ \A c \in Conns : \A n \in DOMAIN hist.order[c] :
            "origin_id" \notin DOMAIN hist.order[c][n]
    /\ \A t \in DOMAIN tasks : tasks[t].pc = "send" => "origin_id" \notin DOMAIN tasks[t].message

\* c1 was sent a CHAT event by the local broadcast of X and c3 the same
\* event by the broker handler of Y, while the item published for it, with
\* the origin_id of X, still waits in the inbox of X
C36_Witness ==
    \E m \in BagToSet(received["c3"]) :
        /\ m.type = "CHAT"
        /\ DOMAIN m = {"type", "trade_id", "sender_chat_pubkey", "ciphertext", "timestamp"}
        /\ hist.order["c1"] = <<m>>
        /\ hist.order["c3"] = <<m>>
        /\ inbox["X"] # <<>>
        /\ listen_loads(Head(inbox["X"]).data) = publish_message(m, broker_id("X"))


\* the waiting request is a cancel of an OPEN trade signed by its seller
SignedCancel ==
    /\ Pending
    /\ req.op = "cancel"
    /\ StatusOf(trades, req.trade_id) = "OPEN"
    /\ verify_signature(trades[req.trade_id].seller_pubkey, req.cancel_hash, req.signature)

\* C37: a cancel request for an OPEN trade with a valid seller signature is
\* accepted only if cancel_hash is the digest of {trade_id, result: CANCELLED,
\* timestamp: T} for T the second of the server clock when it is validated;
\* the same signed request validated at any other second is rejected with
\* the hash-mismatch error.
C37_CancelBoundToSecond ==
    [][(Handles /\ SignedCancel) =>
        /\ result' = "ok" <=> req.cancel_hash = hash_object(CancelBody(req.trade_id, now))
        /\ result' = "ok" =>
            /\ trades'[req.trade_id].status = "CANCELLED"
            /\ \A t \in Times \ {now} :
                  /\ hash_object(CancelBody(req.trade_id, t)) # req.cancel_hash
                  /\ verify_cancel(req.trade_id, req.cancel_hash, req.signature, t).err
                        = "Hash mismatch"
        /\ result' # "ok" => result' = "Hash mismatch" /\ trades' = trades]_vars

\* one trade was cancelled at its second, and the seller's signed cancel of
\* the other trade, made for an earlier second, was refused
C37_Witness ==
    /\ now > 0
    /\ result = "Hash mismatch"
    /\ ~Pending
    /\ \E i \in DOMAIN trades : trades[i].status = "CANCELLED"
    /\ \E j \in DOMAIN trades :
          /\ trades[j].status = "OPEN"
          /\ verify_cancel(j, hash_object(CancelBody(j, now)),
                           Sign(trades[j].seller_pubkey, hash_object(CancelBody(j, now))),
                           now).err = ""
          /\ \A t \in Times \ {now} :
                verify_cancel(j, hash_object(CancelBody(j, t)),
                              Sign(trades[j].seller_pubkey, hash_object(CancelBody(j, t))),
                              now).err = "Hash mismatch"


\* C38: from the end of its join_room until its disconnect, a connection
\* whose handler still processes frames is a member of the room of its trade:
\* a handler that takes a frame and starts a chat service call for it (a
\* relay, a broadcast_join) does so for a connection that is in the room.
C38_RelaysOnlyAsMember ==
    [][\A conn \in Sockets :
        (handler[conn].pc = "receive" /\ handler'[conn].pc = "call") => Member(conn)]_vars


\* the places of message m in the sequence of messages sent to connection c
Places(c, m) == {n \in DOMAIN hist.order[c] : hist.order[c][n] = m}

\* C39: when two relay calls for one trade overlap on an instance, every
\* local member that is sent both CHAT messages is sent them in the same
\* relative order as every other local member.
C39_SameOrderForLocalMembers ==
    \A c, d \in Conns :
        InstanceOf(c) = InstanceOf(d) =>
            \A i, j \in DOMAIN hist.order[c] :
                LET a == hist.order[c][i]
                    b == hist.order[c][j]
                IN (i < j /\ a # b /\ a.type = "CHAT" /\ b.type = "CHAT") =>
                        \A k \in Places(d, a) : \A l \in Places(d, b) : k < l

====
